---- MODULE Spec2Model ----
(***************************************************************************)
(* A model of the chat client's tool-calling loop (chatWithCsvTools in     *)
(* services/gemini.js) and of the chat controller (handleSend and the      *)
(* session handlers of components/Chat.js).                                *)
(*                                                                         *)
(* A JavaScript object is a function from its field names to abstract      *)
(* values.  The value "base64" stands for a base64 string of image bytes   *)
(* and "inlineData{base64}" for the nested object {mimeType, data} that    *)
(* holds such a string.                                                    *)
(***************************************************************************)
EXTENDS Integers, Sequences, FiniteSets, TLC

\* ------------------------------------------------------------------------
\* Program constants and bounds
\* ------------------------------------------------------------------------

\* for (let round = 0; round < 5; round++)
MaxRounds == 5

\* ------------------------------------------------------------------------
\* Tool executor: the results executeTool can return
\* ------------------------------------------------------------------------

\* The two executeTool implementations present in the sources.
Executors == {"dataTools", "csvTools"}

\* Tool names the model may put in a functionCall ("bogus" is a name outside
\* every tool set).
ToolNames ==
  {"generateImage", "plot_metric_vs_time", "play_video", "compute_stats_json",
   "get_top_items", "bogus"}

\* Values that are, or contain, raw base64 image bytes.
RawImageValues == {"base64", "inlineData{base64}"}

ErrorResult == ("error" :> "message")

\* executeTool of dataTools.js: the successful result of each tool.
DataToolsOk(name) ==
  CASE name = "generateImage" ->
         ("_chartType" :> "generatedImage") @@ ("data" :> "base64")
         @@ ("mimeType" :> "mime") @@ ("url" :> "url")
         @@ ("prompt" :> "text") @@ ("fileName" :> "name")
    [] name = "plot_metric_vs_time" ->
         ("_chartType" :> "timeSeries") @@ ("metric" :> "text")
         @@ ("data" :> "points")
    [] name = "play_video" ->
         ("_playVideo" :> "true") @@ ("title" :> "text") @@ ("url" :> "url")
         @@ ("thumbnailUrl" :> "url")
    [] name = "compute_stats_json" ->
         ("field" :> "text") @@ ("count" :> "number") @@ ("mean" :> "number")
         @@ ("median" :> "number") @@ ("std" :> "number")
         @@ ("min" :> "number") @@ ("max" :> "number")
    [] OTHER -> ErrorResult

\* executeTool of the csvTools implementation: the successful result of each tool.
CsvToolsOk(name) ==
  CASE name = "generateImage" ->
         ("inlineData" :> "inlineData{base64}")
         @@ ("_chartType" :> "generatedImage") @@ ("prompt" :> "text")
         @@ ("anchorUsed" :> "boolean") @@ ("url" :> "url")
         @@ ("fileName" :> "name") @@ ("message" :> "text")
    [] name = "plot_metric_vs_time" ->
         ("_chartType" :> "timeSeries") @@ ("metric" :> "text")
         @@ ("timeColumn" :> "text") @@ ("data" :> "points")
         @@ ("count" :> "number")
    [] name = "play_video" ->
         ("_playVideo" :> "true") @@ ("title" :> "text")
         @@ ("thumbnailUrl" :> "url") @@ ("url" :> "url")
         @@ ("message" :> "text")
    [] name = "compute_stats_json" ->
         ("field" :> "text") @@ ("count" :> "number") @@ ("mean" :> "number")
         @@ ("median" :> "number") @@ ("std" :> "number")
         @@ ("min" :> "number") @@ ("max" :> "number")
    [] name = "get_top_items" ->
         ("sort_column" :> "text") @@ ("direction" :> "text")
         @@ ("count" :> "number") @@ ("tweets" :> "rows")
    [] OTHER -> ErrorResult

\* Every result executeTool(name, ...) can return under executor ex: the
\* tool's payload, or an {error} object (no data, fetch failure, unknown tool).
executeTool(ex, name) ==
  {IF ex = "dataTools" THEN DataToolsOk(name) ELSE CsvToolsOk(name), ErrorResult}

\* ------------------------------------------------------------------------
\* chatWithCsvTools
\* ------------------------------------------------------------------------

VARIABLES
  executor,      \* which executeTool the build links (executeFn)
  tpc,           \* position of chatWithCsvTools
  response,      \* let response: the model's latest response
  round,         \* the loop counter
  charts,        \* const charts = []
  toolCalls,     \* const toolCalls = []
  funcName,      \* name of the functionCall being executed
  safeResult,    \* geminiSafeResult of the current round
  sent,          \* the functionResponse turns sent to the model, in order
  executed,      \* the executeFn invocations (name, args, result), in order
  returned       \* the value chatWithCsvTools returned

toolVars ==
  <<executor, tpc, response, round, charts, toolCalls, funcName, safeResult,
    sent, executed, returned>>

\* ------------------------------------------------------------------------
\* Chat controller: state
\* ------------------------------------------------------------------------

VARIABLES
  sessions,               \* useState sessions: the ids in the sidebar, in order
  activeSessionId,        \* "null", "new" or a session id
  messages,               \* the in-memory message list
  csvContext,             \* a pending attachment chip
  dataset,                \* sessionCsvRows, sessionCsvHeaders, csvDataSummary, sessionSlimCsv
  streaming,              \* useState streaming
  abortRef,               \* abortRef.current
  justCreatedSessionRef,  \* justCreatedSessionRef.current
  turn,                   \* the locals of each handleSend invocation
  started,                \* number of handleSend invocations that passed the guard
  sessionsLoading,        \* the initial getSessions call is pending
  pendingLoads,           \* session ids with a loadMessages call in flight
  pendingDeletes,         \* deleteSession calls in flight, with the handler's closure
  navigations,            \* number of New Chat, select and delete clicks so far
  dbSessions,             \* store: ids of the sessions, in creation order
  dbMessages,             \* store: the messages of the existing sessions
  saved,                  \* the saveMessage calls the store acknowledged, in order
  newCreates,             \* createSession calls issued for the current "new" session
  log                     \* per turn: the order of its store and model events

chatVars ==
  <<sessions, activeSessionId, messages, csvContext, dataset, streaming,
    abortRef, justCreatedSessionRef, turn, started, sessionsLoading,
    pendingLoads, pendingDeletes, navigations, dbSessions, dbMessages, saved,
    newCreates, log>>

\* ------------------------------------------------------------------------
\* loadSystemPrompt: state
\* ------------------------------------------------------------------------

VARIABLES
  cachedPrompt,  \* let cachedPrompt = null (module scope of gemini.js)
  promptFile,    \* what the server holds at /prompt_chat.txt
  load,          \* the loadSystemPrompt calls: position and value returned
  fetches        \* number of fetch('/prompt_chat.txt') calls issued

promptVars == <<cachedPrompt, promptFile, load, fetches>>

\* ------------------------------------------------------------------------
\* Data functions (parseCsvToRows, parseJSON, enrichWithEngagement,
\* executeTool): one call, its arguments and what it returned
\* ------------------------------------------------------------------------

VARIABLES
  fnName,    \* the function called, "none" before the call
  fnArgs,    \* its arguments
  fnResult   \* the value it returned

fnVars == <<fnName, fnArgs, fnResult>>

\* ------------------------------------------------------------------------
\* YouTubeDownload component: state
\* ------------------------------------------------------------------------

VARIABLES
  download   \* loading, error, result, progress, the EventSource of
             \* eventSourceRef and what its handlers closed over

vars == <<toolVars, chatVars, promptVars, fnVars, download>>

\* Texts the model may answer with.
Texts == {"t1", "t2"}

\* A model response: a functionCall part (call is the tool's name) or none,
\* and the text response.text() yields.
Responses == [call : ToolNames \cup {"none"}, text : Texts]

NoResponse == [call |-> "none", text |-> "t1"]
NoObject == <<>>

\* toolResult?._chartType || toolResult?._playVideo
IsChart(toolResult) ==
  "_chartType" \in DOMAIN toolResult \/ "_playVideo" \in DOMAIN toolResult

\* const { inlineData, ...geminiSafeResult } = toolResult || {}
StripKeepAll(toolResult) == toolResult
Sanitize(toolResult) ==
  [f \in DOMAIN toolResult \ {"inlineData"} |-> toolResult[f]]

\* geminiSafeResult.error (error messages are non-empty strings)
HasError(result) == "error" \in DOMAIN result

\* return { text: response.text(), charts, toolCalls }
Return(resp, ch, calls) == [text |-> resp.text, charts |-> ch, toolCalls |-> calls]

\* The head of the loop for response resp at counter r: leave the loop and
\* return when r reached the limit or resp has no functionCall part, else call
\* executeFn and wait for it.
LoopLimitOff(r) == TRUE
LoopGuard(r) == r < MaxRounds

\* parts.find((p) => p.functionCall)
FuncCallAlways(resp) == TRUE
HasFuncCall(resp) == resp.call # "none"

LoopHead(resp, r) ==
  IF LoopGuard(r) /\ HasFuncCall(resp)
  THEN /\ tpc' = "executing"
       /\ funcName' = resp.call
       /\ returned' = returned
  ELSE /\ tpc' = "done"
       /\ funcName' = funcName
       /\ returned' = Return(resp, charts, toolCalls)

\* chatWithCsvTools is called: the first chat.sendMessage(parts) is issued.
CallChatWithCsvTools ==
  /\ tpc = "idle"
  /\ tpc' = "awaitFirst"
  /\ UNCHANGED <<executor, response, round, charts, toolCalls, funcName,
                 safeResult, sent, executed, returned>>
  /\ UNCHANGED <<chatVars, promptVars, fnVars, download>>

\* The model answers the first message; the loop starts at round 0.
FirstResponse(resp) ==
  /\ tpc = "awaitFirst"
  /\ response' = resp
  /\ round' = 0
  /\ LoopHead(resp, 0)
  /\ UNCHANGED <<executor, charts, toolCalls, safeResult, sent, executed>>
  /\ UNCHANGED <<chatVars, promptVars, fnVars, download>>

\* executeFn returns toolResult: log it, keep a chart payload, strip
\* inlineData and send the functionResponse turn.
\* (up to the await of chat.sendMessage)
PushChartAlways(ch, toolResult) == Append(ch, toolResult)
PushChart(ch, toolResult) ==
  IF IsChart(toolResult) THEN Append(ch, toolResult) ELSE ch

ToolReturns(toolResult) ==
  /\ tpc = "executing"
  /\ toolResult \in executeTool(executor, funcName)
  /\ executed' = Append(executed, [name |-> funcName, args |-> "args", result |-> toolResult])
  /\ toolCalls' = Append(toolCalls, [name |-> funcName, args |-> "args", result |-> toolResult])
  /\ charts' = PushChart(charts, toolResult)
  /\ safeResult' = Sanitize(toolResult)
  /\ sent' = Append(sent, [name |-> funcName, result |-> Sanitize(toolResult)])
  /\ tpc' = "awaitReply"
  /\ UNCHANGED <<executor, response, round, funcName, returned>>
  /\ UNCHANGED <<chatVars, promptVars, fnVars, download>>

\* The model answers the functionResponse turn: break on an error result,
\* else round++ and back to the head of the loop.
BreakNever(result) == FALSE
BreakOnError(result) == HasError(result)

ReplyArrives(resp) ==
  /\ tpc = "awaitReply"
  /\ response' = resp
  /\ IF BreakOnError(safeResult)
     THEN /\ tpc' = "done"
          /\ returned' = Return(resp, charts, toolCalls)
          /\ UNCHANGED <<round, funcName>>
     ELSE /\ round' = round + 1
          /\ LoopHead(resp, round + 1)
  /\ UNCHANGED <<executor, charts, toolCalls, safeResult, sent, executed>>
  /\ UNCHANGED <<chatVars, promptVars, fnVars, download>>

\* A chat.sendMessage or an executeFn call rejects: chatWithCsvTools rejects.
CallThrows ==
  /\ tpc \in {"awaitFirst", "executing", "awaitReply"}
  /\ tpc' = "failed"
  /\ UNCHANGED <<executor, response, round, charts, toolCalls, funcName,
                 safeResult, sent, executed, returned>>
  /\ UNCHANGED <<chatVars, promptVars, fnVars, download>>

\* ------------------------------------------------------------------------
\* Chat controller: handlers of components/Chat.js
\*
\* Each action is one synchronous segment of a handler (from an event or the
\* resolution of an awaited call up to the next await), followed by React's
\* render and the effects it triggers: state updates made in a segment are
\* committed and the activeSessionId effect has run before the next event.
\* ------------------------------------------------------------------------

MaxTurns == 2
MaxChunks == 3
MaxNavigations == 1

Turns == 1..MaxTurns

\* The sessions the store holds when the component mounts, and the ids it
\* hands out for the sessions created afterwards (one per handleSend at most).
OldSessions == <<"old">>
NewIds == <<"s1", "s2", "s3", "s4">>

\* Text of the successive stream chunks.
ChunkText == <<"c1", "c2", "c3", "c4">>

\* userContent, and `Error: ${err.message}`
UserContent == <<"msg">>
ErrText == <<"Error: message">>

\* The parts a fullResponse event can carry.
FullResponseParts ==
  { <<[type |-> "text", text |-> "p1"], [type |-> "code", text |-> "code"]>>,
    <<[type |-> "text", text |-> "p1"], [type |-> "image", text |-> "base64"],
      [type |-> "text", text |-> "p2"]>> }

StreamEvents ==
  [type : {"text"}, text : {ChunkText[i] : i \in 1..Len(ChunkText)}, parts : {<<>>}]
  \cup [type : {"fullResponse"}, text : {""}, parts : FullResponseParts]
  \cup [type : {"grounding"}, text : {""}, parts : {<<>>}]

\* What chatWithCsvTools can return to handleSend under the linked executor:
\* an answer without tool call, or an answer after one generateImage call.
ChatWithCsvToolsReturns(ex) ==
  {Return([call |-> "none", text |-> "t1"], <<>>, <<>>)}
  \cup {Return([call |-> "none", text |-> "t2"], PushChart(<<>>, r),
               <<[name |-> "generateImage", args |-> "args", result |-> r]>>) :
          r \in executeTool(ex, "generateImage")}

\* What handleSend builds the prompt and the tool call from: the attachment
\* chip (capturedCsv) and the four components of the dataset context.
NoPrompt ==
  [csv |-> "none", rows |-> "none", headers |-> "none", summary |-> "none",
   slim |-> "none"]

\* The locals of a handleSend invocation: pc is its position, yielded and
\* phase the position of the streamChat generator it iterates, events the
\* types of the events that generator has yielded, stopRequested whether
\* handleStop ran after setStreaming(true) and before the model call ended.
NoTurn ==
  [pc |-> "none", sessionId |-> "null", useTools |-> FALSE, fullContent |-> <<>>,
   structuredParts |-> <<>>, groundingData |-> FALSE, toolCharts |-> <<>>,
   toolCalls |-> <<>>, yielded |-> 0, phase |-> "text", events |-> <<>>,
   prompt |-> NoPrompt, stopRequested |-> FALSE]

\* A message of the in-memory list.
Msg(t, role, src, content) ==
  [turn |-> t, role |-> role, src |-> src, content |-> content, parts |-> <<>>,
   grounding |-> FALSE]

\* A saveMessage request.
SaveReqUnderActive(sid, role, t, content, ch, calls) ==
  [sid |-> activeSessionId, role |-> role, turn |-> t, content |-> content,
   charts |-> ch, toolCalls |-> calls]
SaveReq(sid, role, t, content, ch, calls) ==
  [sid |-> sid, role |-> role, turn |-> t, content |-> content, charts |-> ch,
   toolCalls |-> calls]

\* m.map((msg) => msg.id === assistantId ? f(msg) : msg)
IsAssistantOf(msg, t) == msg.turn = t /\ msg.role = "model" /\ msg.src = "local"

SetContent(msgs, t, content) ==
  [i \in 1..Len(msgs) |->
     IF IsAssistantOf(msgs[i], t) THEN [msgs[i] EXCEPT !.content = content] ELSE msgs[i]]

SetPartsKeepContent(msgs, t, parts) ==
  [i \in 1..Len(msgs) |->
     IF IsAssistantOf(msgs[i], t) THEN [msgs[i] EXCEPT !.parts = parts] ELSE msgs[i]]

SetParts(msgs, t, parts) ==
  [i \in 1..Len(msgs) |->
     IF IsAssistantOf(msgs[i], t)
     THEN [msgs[i] EXCEPT !.content = <<>>, !.parts = parts] ELSE msgs[i]]

SetGroundingAndClear(msgs, t, g) ==
  IF g
  THEN [i \in 1..Len(msgs) |->
          IF IsAssistantOf(msgs[i], t)
          THEN [msgs[i] EXCEPT !.grounding = TRUE, !.content = <<>>] ELSE msgs[i]]
  ELSE msgs

SetGrounding(msgs, t, g) ==
  IF g
  THEN [i \in 1..Len(msgs) |->
          IF IsAssistantOf(msgs[i], t) THEN [msgs[i] EXCEPT !.grounding = TRUE] ELSE msgs[i]]
  ELSE msgs

\* structuredParts.filter((p) => p.type === 'text').map((p) => p.text).join('\n')
RECURSIVE JoinText(_)
JoinText(parts) ==
  IF parts = <<>> THEN <<>>
  ELSE LET rest == JoinText(Tail(parts))
       IN  IF Head(parts).type # "text" THEN rest
           ELSE IF rest = <<>> THEN <<Head(parts).text>>
           ELSE <<Head(parts).text, "\n">> \o rest

SavedContentStreamOnly(parts, fullContent) == fullContent
SavedContent(parts, fullContent) ==
  IF parts # <<>> THEN JoinText(parts) ELSE fullContent

\* The messages loadMessages(sid) returns.
History(sid) ==
  LET docs == SelectSeq(dbMessages, LAMBDA d : d.sid = sid)
  IN  [i \in 1..Len(docs) |-> Msg(docs[i].turn, docs[i].role, "db", docs[i].content)]

\* The store pushes a message onto the session document, if it exists.
InSeq(x, sq) == \E i \in 1..Len(sq) : sq[i] = x

StoreMessage(req) ==
  IF InSeq(req.sid, dbSessions)
  THEN Append(dbMessages, [sid |-> req.sid, role |-> req.role, turn |-> req.turn,
                           content |-> req.content])
  ELSE dbMessages

\* useEffect(..., [activeSessionId]): what the effect does once activeSessionId
\* has become id: clear the list for no/new session, skip the reload once
\* after a send created the session, else clear the list and load the history.
SkipReloadNever(flag) == FALSE
SkipReloadAlways(flag) == TRUE
SkipReload(flag) == flag

IsNoSession(id) == id \in {"null", "new"}

\* Commit activeSessionId = id with message list msgs and ref value flag,
\* then run the effect if the identifier changed.
SetActiveSessionId(id, msgs, flag) ==
  /\ activeSessionId' = id
  /\ IF id = activeSessionId
     THEN /\ messages' = msgs
          /\ justCreatedSessionRef' = flag
          /\ pendingLoads' = pendingLoads
     ELSE IF IsNoSession(id)
     THEN /\ messages' = <<>>
          /\ justCreatedSessionRef' = flag
          /\ pendingLoads' = pendingLoads
     ELSE IF SkipReload(flag)
     THEN /\ messages' = msgs
          /\ justCreatedSessionRef' = FALSE
          /\ pendingLoads' = pendingLoads
     ELSE /\ messages' = <<>>
          /\ justCreatedSessionRef' = FALSE
          /\ pendingLoads' = pendingLoads \cup {id}

\* The initial getSessions call resolves.
LoadInitialSessions ==
  /\ sessionsLoading
  /\ sessionsLoading' = FALSE
  /\ sessions' = dbSessions
  /\ SetActiveSessionId(IF activeSessionId # "null" THEN activeSessionId ELSE "new",
                        messages, justCreatedSessionRef)
  /\ UNCHANGED <<csvContext, dataset, streaming, abortRef, turn, started,
                 pendingDeletes, navigations, dbSessions, dbMessages, saved,
                 newCreates, log>>
  /\ UNCHANGED <<toolVars, promptVars, fnVars, download>>

handleNewChat ==
  /\ navigations < MaxNavigations
  /\ navigations' = navigations + 1
  /\ SetActiveSessionId("new", <<>>, justCreatedSessionRef)
  /\ csvContext' = FALSE
  /\ dataset' = [dataset EXCEPT !.rows = "none", !.headers = "none"]
  /\ newCreates' = 0
  /\ UNCHANGED <<sessions, streaming, abortRef, turn, started, sessionsLoading,
                 pendingDeletes, dbSessions, dbMessages, saved, log>>
  /\ UNCHANGED <<toolVars, promptVars, fnVars, download>>

handleSelectSession(sessionId) ==
  /\ InSeq(sessionId, sessions)
  /\ sessionId # activeSessionId
  /\ navigations < MaxNavigations
  /\ navigations' = navigations + 1
  /\ SetActiveSessionId(sessionId, messages, justCreatedSessionRef)
  /\ csvContext' = FALSE
  /\ dataset' = [dataset EXCEPT !.rows = "none", !.headers = "none"]
  /\ newCreates' = 0
  /\ UNCHANGED <<sessions, streaming, abortRef, turn, started, sessionsLoading,
                 pendingDeletes, dbSessions, dbMessages, saved, log>>
  /\ UNCHANGED <<toolVars, promptVars, fnVars, download>>

\* handleDeleteSession up to its await: deleteSession is issued; the closure
\* holds the sessions and activeSessionId of the render it was created in.
handleDeleteSession(sessionId) ==
  /\ InSeq(sessionId, sessions)
  /\ navigations < MaxNavigations
  /\ navigations' = navigations + 1
  /\ pendingDeletes' = pendingDeletes \cup
       {[sid |-> sessionId, sessions |-> sessions, active |-> activeSessionId]}
  /\ UNCHANGED <<sessions, activeSessionId, messages, csvContext, dataset,
                 streaming, abortRef, justCreatedSessionRef, turn, started,
                 sessionsLoading, pendingLoads, dbSessions, dbMessages, saved,
                 newCreates, log>>
  /\ UNCHANGED <<toolVars, promptVars, fnVars, download>>

\* The store's deleteSession(sid): the session and its messages are gone.
DeleteStoredSession(sid) == SelectSeq(dbSessions, LAMBDA x : x # sid)
DeleteStoredMessages(sid) == SelectSeq(dbMessages, LAMBDA m : m.sid # sid)

\* deleteSession resolves: the rest of handleDeleteSession.
DeleteSessionResolves(d) ==
  /\ d \in pendingDeletes
  /\ pendingDeletes' = pendingDeletes \ {d}
  /\ dbSessions' = DeleteStoredSession(d.sid)
  /\ dbMessages' = DeleteStoredMessages(d.sid)
  /\ LET remaining == SelectSeq(d.sessions, LAMBDA x : x # d.sid)
     IN  /\ sessions' = remaining
         /\ IF d.active = d.sid
            THEN /\ SetActiveSessionId(IF Len(remaining) > 0 THEN remaining[1] ELSE "new",
                                       <<>>, justCreatedSessionRef)
                 /\ newCreates' = 0
            ELSE /\ UNCHANGED <<activeSessionId, messages, justCreatedSessionRef,
                                pendingLoads, newCreates>>
  /\ UNCHANGED <<csvContext, dataset, streaming, abortRef, turn, started,
                 sessionsLoading, navigations, saved, log>>
  /\ UNCHANGED <<toolVars, promptVars, fnVars, download>>

\* loadMessages(sessionId).then(setMessages)
LoadMessagesResolves(sessionId) ==
  /\ sessionId \in pendingLoads
  /\ pendingLoads' = pendingLoads \ {sessionId}
  /\ messages' = History(sessionId)
  /\ UNCHANGED <<sessions, activeSessionId, csvContext, dataset, streaming,
                 abortRef, justCreatedSessionRef, turn, started, sessionsLoading,
                 pendingDeletes, navigations, dbSessions, dbMessages, saved,
                 newCreates, log>>
  /\ UNCHANGED <<toolVars, promptVars, fnVars, download>>

\* The CSV and JSON files a user may attach.
Files == {"f1", "f2"}

\* handleDrop / handleFileSelect with a CSV or JSON file, after the file was
\* read: the attachment chip and the four components of the dataset context
\* are set from the file.
handleDrop(file) ==
  /\ csvContext' = TRUE
  /\ dataset' = [rows |-> file, headers |-> file, summary |-> file, slim |-> file]
  /\ UNCHANGED <<sessions, activeSessionId, messages, streaming, abortRef,
                 justCreatedSessionRef, turn, started, sessionsLoading,
                 pendingLoads, pendingDeletes, navigations, dbSessions,
                 dbMessages, saved, newCreates, log>>
  /\ UNCHANGED <<toolVars, promptVars, fnVars, download>>

\* handleStop (the Stop button is shown while streaming)
handleStop ==
  /\ streaming
  /\ abortRef' = TRUE
  /\ turn' = [t \in Turns |->
                IF turn[t].pc \in {"savingUser", "tools", "stream"}
                THEN [turn[t] EXCEPT !.stopRequested = TRUE] ELSE turn[t]]
  /\ UNCHANGED <<sessions, activeSessionId, messages, csvContext, dataset,
                 streaming, justCreatedSessionRef, started, sessionsLoading,
                 pendingLoads, pendingDeletes, navigations, dbSessions,
                 dbMessages, saved, newCreates, log>>
  /\ UNCHANGED <<toolVars, promptVars, fnVars, download>>

\* --- handleSend ---------------------------------------------------------

\* After setStreaming(true) the user message is saved and awaited.
PcAfterComposeNoAwait(useTools) == IF useTools THEN "tools" ELSE "stream"
PcAfterCompose(useTools) == "savingUser"

\* csvPrefix of promptForGemini and the arguments of chatWithCsvTools: which
\* attachment each part is taken from.  chip is the pending attachment chip
\* (capturedCsv) and ds the dataset context of the render handleSend closed
\* over; the chip, when there is one, is of the file that csvDataSummary was
\* last computed from, since only handleDrop sets either.
BuildPrompt(chip, ds, useTools) ==
  [csv     |-> IF chip THEN ds.summary ELSE "none",
   summary |-> ds.summary,
   slim    |-> IF chip THEN ds.slim ELSE "none",
   headers |-> IF useTools \/ (~chip /\ ds.summary # "none") THEN ds.headers ELSE "none",
   rows    |-> IF useTools THEN ds.rows ELSE "none"]

\* handleSend from the user message to `await saveMessage(sessionId, 'user', ...)`
\* for invocation t with session id sid; msgs and flag are the message list and
\* the ref as the segment found them, id the activeSessionId it commits.
Compose(t, sid, useTools, prompt, id, msgs, flag) ==
  /\ SetActiveSessionId(id, Append(msgs, Msg(t, "user", "local", UserContent)), flag)
  /\ csvContext' = FALSE
  /\ streaming' = TRUE
  /\ turn' = [turn EXCEPT ![t] = [NoTurn EXCEPT !.pc = PcAfterCompose(useTools),
                                                !.sessionId = sid,
                                                !.useTools = useTools,
                                                !.prompt = prompt]]
  /\ log' = [log EXCEPT ![t] = Append(@, "userSaveIssued")]

\* handleSend is invoked and passes its guard.  In a "new" session it issues
\* createSession and waits; else it goes on to the user message.
handleSend(text, wantsImageGeneration) ==
  /\ (text \/ csvContext) /\ ~streaming /\ activeSessionId # "null"
  /\ wantsImageGeneration => text
  /\ started < MaxTurns
  /\ started' = started + 1
  /\ LET t == started + 1
         useTools == dataset.rows # "none" \/ wantsImageGeneration
         prompt == BuildPrompt(csvContext, dataset, useTools)
     IN  IF activeSessionId = "new"
         THEN /\ turn' = [turn EXCEPT ![t] = [NoTurn EXCEPT !.pc = "creating",
                                                             !.useTools = useTools,
                                                             !.prompt = prompt]]
              /\ newCreates' = newCreates + 1
              /\ UNCHANGED <<activeSessionId, messages, justCreatedSessionRef,
                             pendingLoads, csvContext, streaming, sessions, log>>
         ELSE /\ Compose(t, activeSessionId, useTools, prompt, activeSessionId,
                         messages, justCreatedSessionRef)
              /\ UNCHANGED <<sessions, newCreates>>
  /\ UNCHANGED <<dataset, abortRef, sessionsLoading, pendingDeletes, navigations,
                 dbSessions, dbMessages, saved>>
  /\ UNCHANGED <<toolVars, promptVars, fnVars, download>>

\* createSession resolves with a fresh id: the ref is set, the id becomes the
\* active one, the session is put first in the sidebar, and handleSend goes on.
CreateSessionResolves(t) ==
  /\ turn[t].pc = "creating"
  /\ LET id == NewIds[t]
     IN  /\ dbSessions' = Append(dbSessions, id)
         /\ sessions' = <<id>> \o sessions
         /\ Compose(t, id, turn[t].useTools, turn[t].prompt, id, messages, TRUE)
  /\ UNCHANGED <<dataset, abortRef, started, sessionsLoading, pendingDeletes,
                 navigations, dbMessages, saved, newCreates>>
  /\ UNCHANGED <<toolVars, promptVars, fnVars, download>>

\* The handleSend promise rejects at an awaited store call (createSession or
\* saveMessage): nothing after the await runs.
StoreCallFails(t) ==
  /\ turn[t].pc \in {"creating", "savingUser", "savingModel"}
  /\ turn' = [turn EXCEPT ![t].pc = "rejected"]
  /\ UNCHANGED <<sessions, activeSessionId, messages, csvContext, dataset,
                 streaming, abortRef, justCreatedSessionRef, started,
                 sessionsLoading, pendingLoads, pendingDeletes, navigations,
                 dbSessions, dbMessages, saved, newCreates, log>>
  /\ UNCHANGED <<toolVars, promptVars, fnVars, download>>

\* The user message is saved: the empty assistant message is added, the abort
\* flag reset and the model invoked (chatWithCsvTools or streamChat).
SaveUserResolves(t) ==
  /\ turn[t].pc = "savingUser"
  /\ LET req == SaveReq(turn[t].sessionId, "user", t, UserContent, <<>>, <<>>)
     IN  /\ saved' = Append(saved, req)
         /\ dbMessages' = StoreMessage(req)
  /\ messages' = Append(messages, Msg(t, "model", "local", <<>>))
  /\ abortRef' = FALSE
  /\ turn' = [turn EXCEPT ![t].pc = IF turn[t].useTools THEN "tools" ELSE "stream"]
  /\ log' = [log EXCEPT ![t] = @ \o <<"userSaved", "modelInvoked">>]
  /\ UNCHANGED <<sessions, activeSessionId, csvContext, dataset, streaming,
                 justCreatedSessionRef, started, sessionsLoading, pendingLoads,
                 pendingDeletes, navigations, dbSessions, newCreates>>
  /\ UNCHANGED <<toolVars, promptVars, fnVars, download>>

\* The end of handleSend's try/catch for invocation t, with the locals as the
\* model call left them: the grounding is attached and the assistant message
\* is saved (`await saveMessage(sessionId, 'model', savedContent, ...)`).
PcAfterModelNoCatch(outcome) == IF outcome = "error" THEN "rejected" ELSE "savingModel"
PcAfterModel(outcome) == "savingModel"

FinishModel(t, outcome, msgs, locals) ==
  /\ messages' = SetGrounding(msgs, t, locals.groundingData)
  /\ turn' = [turn EXCEPT ![t] = [locals EXCEPT !.pc = PcAfterModel(outcome)]]
  /\ log' = [log EXCEPT ![t] =
               @ \o (IF PcAfterModel(outcome) = "savingModel"
                     THEN <<"modelEnded:" \o outcome, "modelSaveIssued">>
                     ELSE <<"modelEnded:" \o outcome>>)]

\* chatWithCsvTools returns.
ChatWithCsvToolsReturnsTo(t, ret) ==
  /\ turn[t].pc = "tools"
  /\ ret \in ChatWithCsvToolsReturns(executor)
  /\ FinishModel(t, "finished", SetContent(messages, t, <<ret.text>>),
                 [turn[t] EXCEPT !.fullContent = <<ret.text>>,
                                 !.toolCharts = ret.charts,
                                 !.toolCalls = ret.toolCalls])
  /\ UNCHANGED <<sessions, activeSessionId, csvContext, dataset, streaming,
                 abortRef, justCreatedSessionRef, started, sessionsLoading,
                 pendingLoads, pendingDeletes, navigations, dbSessions,
                 dbMessages, saved, newCreates>>
  /\ UNCHANGED <<toolVars, promptVars, fnVars, download>>

\* fullContent = errText
CatchKeepsStreamed(fullContent) == fullContent
CatchContent(fullContent) == ErrText

\* chatWithCsvTools or streamChat throws: the catch block.  streamChat can
\* throw at sendMessageStream, while it iterates result.stream and at
\* `await result.response`, all before it yields fullResponse or grounding.
ModelCallThrows(t) ==
  /\ \/ turn[t].pc = "tools"
     \/ turn[t].pc = "stream" /\ turn[t].phase = "text"
  /\ FinishModel(t, "error", SetContent(messages, t, ErrText),
                 [turn[t] EXCEPT !.fullContent = CatchContent(turn[t].fullContent)])
  /\ UNCHANGED <<sessions, activeSessionId, csvContext, dataset, streaming,
                 abortRef, justCreatedSessionRef, started, sessionsLoading,
                 pendingLoads, pendingDeletes, navigations, dbSessions,
                 dbMessages, saved, newCreates>>
  /\ UNCHANGED <<toolVars, promptVars, fnVars, download>>

\* streamChat: the events the generator can yield next, after `yielded` text
\* chunks and in phase `phase`: text chunks, then at most one fullResponse,
\* then at most one grounding.
CanYieldAnyOrder(ev, yielded, phase) ==
  \/ ev.type = "text" /\ yielded < MaxChunks /\ ev.text = ChunkText[yielded + 1]
  \/ ev.type = "fullResponse" /\ phase = "text"
  \/ ev.type = "grounding" /\ phase \in {"text", "full"}

CanYield(ev, yielded, phase) ==
  \/ ev.type = "text" /\ phase = "text" /\ yielded < MaxChunks
       /\ ev.text = ChunkText[yielded + 1]
  \/ ev.type = "fullResponse" /\ phase = "text"
  \/ ev.type = "grounding" /\ phase \in {"text", "full"}

\* fullContent += chunk.text (a string is the sequence of its pieces)
ConcatReplace(fullContent, text) == <<text>>
Concat(fullContent, text) == Append(fullContent, text)

\* One iteration of `for await (const chunk of streamChat(...))`.
StreamYields(t, chunk) ==
  /\ turn[t].pc = "stream"
  /\ CanYield(chunk, turn[t].yielded, turn[t].phase)
  /\ LET events == Append(turn[t].events, chunk.type)
     IN  IF abortRef
         THEN FinishModel(t, "cancelled", messages, [turn[t] EXCEPT !.events = events])
         ELSE /\ log' = log
              /\ IF chunk.type = "text"
                 THEN LET fullContent == Concat(turn[t].fullContent, chunk.text)
                      IN  /\ turn' = [turn EXCEPT ![t].fullContent = fullContent,
                                                  ![t].yielded = @ + 1,
                                                  ![t].events = events]
                          /\ messages' = SetContent(messages, t, fullContent)
                 ELSE IF chunk.type = "fullResponse"
                 THEN /\ turn' = [turn EXCEPT ![t].structuredParts = chunk.parts,
                                              ![t].phase = "full",
                                              ![t].events = events]
                      /\ messages' = SetParts(messages, t, chunk.parts)
                 ELSE /\ turn' = [turn EXCEPT ![t].groundingData = TRUE,
                                              ![t].phase = "ground",
                                              ![t].events = events]
                      /\ messages' = messages
  /\ UNCHANGED <<sessions, activeSessionId, csvContext, dataset, streaming,
                 abortRef, justCreatedSessionRef, started, sessionsLoading,
                 pendingLoads, pendingDeletes, navigations, dbSessions,
                 dbMessages, saved, newCreates>>
  /\ UNCHANGED <<toolVars, promptVars, fnVars, download>>

\* The generator returns: the loop ends.
StreamCompletes(t) ==
  /\ turn[t].pc = "stream"
  /\ FinishModel(t, "finished", messages, turn[t])
  /\ UNCHANGED <<sessions, activeSessionId, csvContext, dataset, streaming,
                 abortRef, justCreatedSessionRef, started, sessionsLoading,
                 pendingLoads, pendingDeletes, navigations, dbSessions,
                 dbMessages, saved, newCreates>>
  /\ UNCHANGED <<toolVars, promptVars, fnVars, download>>

\* The assistant message is saved: setStreaming(false), handleSend ends.
SaveModelResolves(t) ==
  /\ turn[t].pc = "savingModel"
  /\ LET req == SaveReq(turn[t].sessionId, "model", t,
                        SavedContent(turn[t].structuredParts, turn[t].fullContent),
                        turn[t].toolCharts, turn[t].toolCalls)
     IN  /\ saved' = Append(saved, req)
         /\ dbMessages' = StoreMessage(req)
  /\ streaming' = FALSE
  /\ turn' = [turn EXCEPT ![t].pc = "done"]
  /\ log' = [log EXCEPT ![t] = Append(@, "modelSaved")]
  /\ UNCHANGED <<sessions, activeSessionId, messages, csvContext, dataset,
                 abortRef, justCreatedSessionRef, started, sessionsLoading,
                 pendingLoads, pendingDeletes, navigations, dbSessions,
                 newCreates>>
  /\ UNCHANGED <<toolVars, promptVars, fnVars, download>>

\* ------------------------------------------------------------------------
\* loadSystemPrompt of services/gemini.js, called first by every streamChat
\* and chatWithCsvTools call
\* ------------------------------------------------------------------------

MaxLoads == 3

Loads == 1..MaxLoads

\* What /prompt_chat.txt can be: absent, empty, or a text.
PromptFiles == {"missing", "", " v1 ", "v2"}

\* (await res.text()).trim()
Trim(text) == IF text = " v1 " THEN "v1" ELSE text

\* if (cachedPrompt): null and the empty string are falsy
Truthy(value) == value \notin {"null", ""}

\* The history argument of streamChat and chatWithCsvTools: no prior turn, or
\* a user turn and a model turn without content.
PriorTurns ==
  {<<>>, <<[role |-> "user", content |-> "hi"], [role |-> "model", content |-> "undefined"]>>}

\* chatHistory: the two priming turns before baseHistory when the system
\* instruction is truthy, else baseHistory, whose entries have the role and
\* the text m.content || ''
ChatHistoryAlwaysPrimed(systemInstruction, history) ==
  <<[role |-> "user", text |-> "Follow these instructions: " \o systemInstruction],
    [role |-> "model", text |-> "Got it!"]>>
  \o [i \in 1..Len(history) |->
        [role |-> IF history[i].role = "user" THEN "user" ELSE "model",
         text |-> IF history[i].content = "undefined" THEN "" ELSE history[i].content]]

ChatHistory(systemInstruction, history) ==
  LET baseHistory ==
        [i \in 1..Len(history) |->
           [role |-> IF history[i].role = "user" THEN "user" ELSE "model",
            text |-> IF history[i].content = "undefined" THEN "" ELSE history[i].content]]
  IN  IF Truthy(systemInstruction)
      THEN <<[role |-> "user", text |-> "Follow these instructions: " \o systemInstruction],
             [role |-> "model", text |-> "Got it!"]>> \o baseHistory
      ELSE baseHistory

\* A streamChat or chatWithCsvTools call up to model.startChat: the position
\* of its loadSystemPrompt call, the value that returned, how the fetch ended,
\* the history argument and the chatHistory built.
NoLoad ==
  [pc |-> "idle", value |-> "null", outcome |-> "none", prior |-> <<>>,
   chatHistory |-> <<>>]

\* streamChat or chatWithCsvTools is called with a history and calls
\* loadSystemPrompt: return the cached prompt, or issue the fetch.
CallLoadSystemPrompt(c) ==
  /\ load[c].pc = "idle"
  /\ \E history \in PriorTurns :
       IF Truthy(cachedPrompt)
       THEN /\ load' = [load EXCEPT ![c] =
                         [pc |-> "done", value |-> cachedPrompt, outcome |-> "cached",
                          prior |-> history,
                          chatHistory |-> ChatHistory(cachedPrompt, history)]]
            /\ fetches' = fetches
       ELSE /\ load' = [load EXCEPT ![c].pc = "fetching", ![c].prior = history]
            /\ fetches' = fetches + 1
  /\ UNCHANGED <<cachedPrompt, promptFile>>
  /\ UNCHANGED <<toolVars, chatVars, fnVars, download>>

\* The fetch of call c ends: with the resource ("ok"), with a response that is
\* not ok ("notOk"), or by throwing ("throws"); the outcome is cached and
\* returned, and the caller builds chatHistory.
FetchResolves(c, outcome) ==
  /\ load[c].pc = "fetching"
  /\ outcome = "ok" => promptFile # "missing"
  /\ outcome = "notOk" => promptFile = "missing"
  /\ LET value == IF outcome = "ok" THEN Trim(promptFile) ELSE ""
     IN  /\ cachedPrompt' = value
         /\ load' = [load EXCEPT ![c] =
                       [pc |-> "done", value |-> value, outcome |-> outcome,
                        prior |-> load[c].prior,
                        chatHistory |-> ChatHistory(value, load[c].prior)]]
  /\ UNCHANGED <<promptFile, fetches>>
  /\ UNCHANGED <<toolVars, chatVars, fnVars, download>>

\* public/prompt_chat.txt is edited, created or removed on the server.
EditPromptFile(content) ==
  /\ content # promptFile
  /\ promptFile' = content
  /\ UNCHANGED <<cachedPrompt, load, fetches>>
  /\ UNCHANGED <<toolVars, chatVars, fnVars, download>>

\* The module is loaded, the server holding one of files.
InitLoad(files) ==
  /\ cachedPrompt = "null"
  /\ promptFile \in files
  /\ load = [c \in Loads |-> NoLoad]
  /\ fetches = 0

NextLoad ==
  \/ \E c \in Loads : CallLoadSystemPrompt(c)
  \/ \E c \in Loads, outcome \in {"ok", "notOk", "throws"} : FetchResolves(c, outcome)
  \/ \E content \in PromptFiles : EditPromptFile(content)

\* ------------------------------------------------------------------------
\* Data functions of services/dataTools.js (the module Chat.js imports) and
\* of the csvTools implementation, and parseJSON of components/Chat.js
\*
\* A cell of a row is a JavaScript value: k is its kind ("num" a number or a
\* numeric string, "text" a non-numeric string, "empty" the empty string,
\* "undefined", "null", "nan"); a number is the fraction n/d in lowest terms;
\* a text is the sequence s of its words.  A row is a function from its keys
\* to cells, a dataset a sequence of rows with a sequence of headers.
\* ------------------------------------------------------------------------

MaxEnrichRows == 2

RECURSIVE GCD(_, _)
GCD(a, b) == IF b = 0 THEN a ELSE GCD(b, a % b)

\* The number a/b (b > 0), in lowest terms.
Ratio(a, b) ==
  LET m == IF a < 0 THEN 0 - a ELSE a
      g == GCD(m, b)
  IN  [k |-> "num", n |-> IF a < 0 THEN 0 - (m \div g) ELSE m \div g,
       d |-> b \div g, s |-> <<>>]

Num(n) == Ratio(n, 1)
Text(s) == [k |-> "text", n |-> 0, d |-> 1, s |-> s]
\* The empty string, undefined, null and NaN
Blank(k) == [k |-> k, n |-> 0, d |-> 1, s |-> <<>>]

\* parseFloat(v): the texts of the model are non-numeric strings
ParseFloat(v) == IF v.k = "num" THEN v ELSE Blank("nan")

\* x || 0 for a number x: NaN and 0 are falsy
OrZero(x) == IF x.k = "num" /\ x.n # 0 THEN x ELSE Num(0)

\* a / b for numbers a and b, b > 0
Divide(a, b) == Ratio(a.n * b.d, a.d * b.n)

\* +x.toFixed(places) with scale = 10^places: x * scale rounded to the
\* nearest integer, halves away from zero
ToFixed(x, scale) ==
  LET m == (IF x.n < 0 THEN 0 - x.n ELSE x.n) * scale
      q == (2 * m + x.d) \div (2 * x.d)
  IN  Ratio(IF x.n < 0 THEN 0 - q ELSE q, scale)

\* row[key]
Get(row, key) == IF key \in DOMAIN row THEN row[key] ELSE Blank("undefined")

\* { ...row, [key]: value }
WithKey(row, key, value) ==
  [f \in DOMAIN row \cup {key} |-> IF f = key THEN value ELSE row[f]]

\* headers.find((h) => /name/i.test(h)): of the headers of the model only
\* name itself matches
FindHeader(headers, name) == IF InSeq(name, headers) THEN name ELSE "undefined"

Range(sq) == {sq[i] : i \in 1..Len(sq)}

SeqsUpTo(S, n) == UNION {[1..len -> S] : len \in 0..n}

\* --- enrichWithEngagement ------------------------------------------------

\* dataTools.js: headers.includes('engagement') ? headers : [...headers, 'engagement']
NewHeadersAlwaysAppend(headers) == Append(headers, "engagement")
NewHeaders(headers) ==
  IF InSeq("engagement", headers) THEN headers ELSE Append(headers, "engagement")

\* dataTools.js: the engagement of a row
EngagementOfDataTools(row) ==
  LET viewCount == OrZero(ParseFloat(Get(row, "viewCount")))
      likeCount == OrZero(ParseFloat(Get(row, "likeCount")))
  IN  IF viewCount.n > 0 THEN Divide(likeCount, viewCount) ELSE Num(0)

\* csvTools: the engagement of a row
EngagementOfCsvTools(row, likeCol, viewCol) ==
  LET likes == ParseFloat(Get(row, likeCol))
      views == ParseFloat(Get(row, viewCol))
  IN  IF likes.k # "nan" /\ views.k # "nan" /\ views.n > 0
      THEN ToFixed(Divide(likes, views), 1000000) ELSE Blank("null")

enrichWithEngagement(ex, rows, headers) ==
  IF ex = "dataTools"
  THEN IF Len(rows) = 0 THEN [rows |-> <<>>, headers |-> <<>>]
       ELSE [rows |-> [i \in 1..Len(rows) |->
                         WithKey(rows[i], "engagement", EngagementOfDataTools(rows[i]))],
             headers |-> NewHeaders(headers)]
  ELSE LET likeCol == FindHeader(headers, "likeCount")
           viewCol == FindHeader(headers, "viewCount")
       IN  IF Len(rows) = 0 \/ likeCol = "undefined" \/ viewCol = "undefined"
              \/ InSeq("engagement", headers)
           THEN [rows |-> rows, headers |-> headers]
           ELSE [rows |-> [i \in 1..Len(rows) |->
                             WithKey(rows[i], "engagement",
                                     EngagementOfCsvTools(rows[i], likeCol, viewCol))],
                 headers |-> Append(headers, "engagement")]

\* The datasets enrichWithEngagement is applied to: what parseCsvToRows and
\* parseJSON can return for files with these header rows, the counts zero,
\* negative, positive, not a number, empty and missing.
EnrichInputs ==
  LET counts == {Num(0), Num(0 - 2), Num(2), Num(3), Text(<<"abc">>),
                 Blank("empty"), Blank("undefined")}
      cells(h) == CASE h \in {"viewCount", "likeCount"} -> counts
                    [] h = "engagement" -> {Num(1)}
                    [] OTHER -> {Text(<<"cats">>)}
      rowsOf(headers) ==
        {row \in [Range(headers) -> UNION {cells(h) : h \in Range(headers)}] :
           \A h \in Range(headers) : row[h] \in cells(h)}
  IN  UNION {[rows : SeqsUpTo(rowsOf(headers), MaxEnrichRows), headers : {headers}] :
               headers \in { <<"title">>, <<"title", "viewCount">>,
                             <<"title", "viewCount", "likeCount">>,
                             <<"title", "viewCount", "likeCount", "engagement">> }}

CallEnrichWithEngagement(input) ==
  /\ fnName' = "enrichWithEngagement"
  /\ fnArgs' = input
  /\ fnResult' = enrichWithEngagement(executor, input.rows, input.headers)
  /\ UNCHANGED <<toolVars, chatVars, promptVars, download>>

\* --- parseCsvToRows ------------------------------------------------------
\* A string is a sequence of pieces: a comma, a double quote, a space, a line
\* feed, or a run of other characters.

MaxCsvRows == 2

\* s.split(sep)
RECURSIVE SplitOn(_, _)
SplitOn(s, sep) ==
  IF \A i \in 1..Len(s) : s[i] # sep THEN <<s>>
  ELSE LET i == CHOOSE k \in 1..Len(s) : s[k] = sep /\ \A j \in 1..(k - 1) : s[j] # sep
       IN  <<SubSeq(s, 1, i - 1)>> \o SplitOn(SubSeq(s, i + 1, Len(s)), sep)

\* s.trim()
RECURSIVE TrimStr(_)
TrimStr(s) ==
  IF s = <<>> THEN s
  ELSE IF Head(s) = " " THEN TrimStr(Tail(s))
  ELSE IF s[Len(s)] = " " THEN TrimStr(SubSeq(s, 1, Len(s) - 1))
  ELSE s

\* s.replace(/^"|"$/g, '')
StripQuotes(s) ==
  LET t == IF s # <<>> /\ Head(s) = "\"" THEN Tail(s) ELSE s
  IN  IF t # <<>> /\ t[Len(t)] = "\"" THEN SubSeq(t, 1, Len(t) - 1) ELSE t

\* text.split('\n').filter((l) => l.trim())
Lines(text) == SelectSeq(SplitOn(text, "\n"), LAMBDA l : TrimStr(l) # <<>>)

\* csvTools parseLine, from character i on
RECURSIVE ParseLineFrom(_, _, _, _, _)
ParseLineFrom(line, i, current, inQuotes, result) ==
  IF i > Len(line) THEN Append(result, TrimStr(current))
  ELSE IF line[i] = "\"" THEN ParseLineFrom(line, i + 1, current, ~inQuotes, result)
  ELSE IF line[i] = "," /\ ~inQuotes
       THEN ParseLineFrom(line, i + 1, <<>>, inQuotes, Append(result, TrimStr(current)))
  ELSE ParseLineFrom(line, i + 1, Append(current, line[i]), inQuotes, result)

parseLine(line) == ParseLineFrom(line, 1, <<>>, FALSE, <<>>)

\* The row object with key headers[i] holding values[i], or missing when the
\* line has no i-th value; of two equal headers the later one wins.
RowObject(headers, values, missing) ==
  [h \in Range(headers) |->
     LET i == CHOOSE k \in 1..Len(headers) :
                headers[k] = h /\ \A j \in (k + 1)..Len(headers) : headers[j] # h
     IN  IF i <= Len(values) THEN values[i] ELSE missing]

\* dataTools.js splits every line at its commas and keeps the values as they
\* are (<<"undefined">> stands for the value undefined); csvTools reads the
\* lines with parseLine and strips the quotes around a value.
parseCsvToRows(ex, text) ==
  LET lines == Lines(text)
      fields(line) ==
        IF ex = "dataTools" THEN SplitOn(line, ",")
        ELSE [i \in 1..Len(parseLine(line)) |-> StripQuotes(parseLine(line)[i])]
      headers ==
        IF ex = "dataTools"
        THEN [i \in 1..Len(fields(lines[1])) |-> StripQuotes(TrimStr(fields(lines[1])[i]))]
        ELSE fields(lines[1])
  IN  IF Len(lines) < (IF ex = "dataTools" THEN 1 ELSE 2)
      THEN [rows |-> <<>>, headers |-> <<>>]
      ELSE [rows |-> [r \in 1..(Len(lines) - 1) |->
                        RowObject(headers, fields(lines[r + 1]),
                                  IF ex = "dataTools" THEN <<"undefined">> ELSE <<>>)],
            headers |-> headers]

\* parts.join(sep)
RECURSIVE Join(_, _)
Join(parts, sep) ==
  IF parts = <<>> THEN <<>>
  ELSE IF Len(parts) = 1 THEN parts[1]
  ELSE parts[1] \o <<sep>> \o Join(Tail(parts), sep)

\* The text of a CSV file with this header row and these data rows, every
\* field that holds a comma written inside double quotes.
EncodeCsv(headers, rows) ==
  LET field(f) == IF InSeq(",", f) THEN <<"\"">> \o f \o <<"\"">> ELSE f
      line(fields) == Join([i \in 1..Len(fields) |-> field(fields[i])], ",")
  IN  Join(<<line(headers)>> \o [r \in 1..Len(rows) |-> line(rows[r])], "\n")

\* The CSV files: one or two columns, data rows of as many fields.
CsvInputs ==
  LET fields == { <<"a">>, <<"7">>, <<"a", ",", " ", "b">> }
  IN  UNION {[headers : {headers}, rows : SeqsUpTo([1..Len(headers) -> fields], MaxCsvRows)] :
               headers \in { <<<<"title">>>>, <<<<"title">>, <<"views">>>> }}

CallParseCsvToRows(input) ==
  /\ fnName' = "parseCsvToRows"
  /\ fnArgs' = [text |-> EncodeCsv(input.headers, input.rows),
                headers |-> input.headers, rows |-> input.rows]
  /\ fnResult' = parseCsvToRows(executor, EncodeCsv(input.headers, input.rows))
  /\ UNCHANGED <<toolVars, chatVars, promptVars, download>>

\* --- parseJSON (components/Chat.js) --------------------------------------
\* The text of a JSON file is what JSON.parse makes of it: t is "invalid" when
\* JSON.parse throws, else the type of the value ("null", "number", "string",
\* "array" with its items, "object" with its properties in the order written).

MaxItems == 2

\* Object.values(v) and Object.keys(v) for v other than null
ObjectValues(v) ==
  CASE v.t = "object" -> [i \in 1..Len(v.props) |-> v.props[i].val]
    [] v.t = "string" -> <<[t |-> "string", v |-> "x"]>>
    [] OTHER -> <<>>

ObjectKeys(v) ==
  CASE v.t = "object" -> [i \in 1..Len(v.props) |-> v.props[i].key]
    [] v.t = "string" -> <<"0">>
    [] OTHER -> <<>>

\* item[h]
Member(item, h) ==
  IF item.t = "object" /\ \E i \in 1..Len(item.props) : item.props[i].key = h
  THEN item.props[CHOOSE i \in 1..Len(item.props) : item.props[i].key = h].val
  ELSE [t |-> "undefined"]

\* values.find(v => Array.isArray(v) && v.length > 0)
RECURSIVE FindArray(_)
FindArray(values) ==
  IF values = <<>> THEN [t |-> "undefined"]
  ELSE IF Head(values).t = "array" /\ Len(Head(values).items) > 0 THEN Head(values)
  ELSE FindArray(Tail(values))

\* [...new Set(data.flatMap(item => Object.keys(item)))]
RECURSIVE UniqueKeys(_)
UniqueKeys(items) ==
  IF items = <<>> THEN <<>>
  ELSE LET front == UniqueKeys(SubSeq(items, 1, Len(items) - 1))
       IN  front \o SelectSeq(ObjectKeys(items[Len(items)]), LAMBDA key : ~InSeq(key, front))

\* The cell made of a member of an item
CellText(val) ==
  CASE val.t \in {"null", "undefined"} -> ""
    [] val.t \in {"object", "array"} -> "json"
    [] OTHER -> val.v

NullResult == [k |-> "null"]
Thrown == [k |-> "throw"]

\* The body of the try block: JSON.parse, Object.values(null) and
\* Object.keys(null) throw
parseJSONBody(text) ==
  IF text.t \in {"invalid", "null"} THEN Thrown
  ELSE LET data == IF text.t = "array" THEN text ELSE FindArray(ObjectValues(text))
       IN  IF data.t = "undefined" THEN NullResult
           ELSE IF Len(data.items) = 0
                   \/ data.items[1].t \notin {"object", "array", "null"}
                THEN NullResult
           ELSE IF \E i \in 1..Len(data.items) : data.items[i].t = "null" THEN Thrown
           ELSE LET headers == UniqueKeys(data.items)
                IN  [k |-> "table", headers |-> headers, rowCount |-> Len(data.items),
                     rows |-> [i \in 1..Len(data.items) |->
                                 [h \in Range(headers) |->
                                    CellText(Member(data.items[i], h))]]]

\* try { ... } catch { return null }
parseJSON(text) ==
  IF parseJSONBody(text) = Thrown THEN NullResult ELSE parseJSONBody(text)

\* The files given to parseJSON: invalid text, null, scalars, arrays of up to
\* MaxItems items, and objects with up to two properties.
JsonTexts ==
  LET null == [t |-> "null"]
      num == [t |-> "number", v |-> "7"]
      str == [t |-> "string", v |-> "x"]
      Arr(items) == [t |-> "array", items |-> items]
      Obj(props) == [t |-> "object", props |-> props]
      Prop(key, val) == [key |-> key, val |-> val]
      items == {Obj(<<Prop("a", num)>>), Obj(<<Prop("b", str), Prop("a", null)>>), null, num}
      values == {Arr(<<>>), Arr(<<Obj(<<Prop("a", num)>>)>>),
                 Arr(<<Obj(<<Prop("b", str)>>)>>), num}
  IN  {[t |-> "invalid"], null, num, str, Obj(<<>>)}
        \cup {Arr(sq) : sq \in SeqsUpTo(items, MaxItems)}
        \cup {Obj(<<Prop("data", v)>>) : v \in values}
        \cup {Obj(<<Prop("data", v), Prop("more", w)>>) : v \in values, w \in values}

CallParseJSON(text) ==
  /\ fnName' = "parseJSON"
  /\ fnArgs' = [text |-> text]
  /\ fnResult' = parseJSON(text)
  /\ UNCHANGED <<toolVars, chatVars, promptVars, download>>

\* --- executeTool -----------------------------------------------------------
\* A result is the object returned; an error object has the field error, with
\* the values its message is built from in further fields.

MaxStatRows == 4
MaxTopRows == 3
MaxVideoRows == 2
MaxPlotRows == 2

\* Object.keys(safeRows[0]), as a set
AvailableHeaders(rows) == IF Len(rows) = 0 THEN {} ELSE DOMAIN rows[1]

\* norm(s) of resolveCol: lower case without spaces, underscores and hyphens,
\* for the column names of the model
Norm(s) ==
  CASE s \in {"viewCount", "view_count", "View Count"} -> "viewcount"
    [] s \in {"likeCount", "like_count"} -> "likecount"
    [] s = "videoUrl" -> "videourl"
    [] OTHER -> s

resolveCol(rows, name) ==
  IF Len(rows) = 0 \/ name = "undefined" THEN name
  ELSE IF name \in DOMAIN rows[1] THEN name
  ELSE IF \E key \in DOMAIN rows[1] : Norm(key) = Norm(name)
       THEN CHOOSE key \in DOMAIN rows[1] : Norm(key) = Norm(name)
  ELSE name

\* dataTools.js: the field a metric name is mapped to by the substring view,
\* like or engage, "undefined" being a call without the argument
FieldOf(name) ==
  CASE Norm(name) \in {"undefined", "viewcount"} -> "viewCount"
    [] Norm(name) = "likecount" -> "likeCount"
    [] name = "engagement" -> "engagement"
    [] OTHER -> Norm(name)

\* rows.map((r) => parseFloat(r[col])).filter((v) => !isNaN(v)), as integers
RECURSIVE numericValues(_, _)
numericValues(rows, col) ==
  IF rows = <<>> THEN <<>>
  ELSE LET v == ParseFloat(Get(Head(rows), col))
       IN  (IF v.k = "num" THEN <<v.n>> ELSE <<>>) \o numericValues(Tail(rows), col)

\* vals.reduce((a, b) => a + b, 0)
RECURSIVE SumOf(_)
SumOf(vals) == IF vals = <<>> THEN 0 ELSE Head(vals) + SumOf(Tail(vals))

\* [...vals].sort((a, b) => a - b)
RECURSIVE SortAscending(_)
SortAscending(vals) ==
  IF vals = <<>> THEN <<>>
  ELSE LET rest == SortAscending(Tail(vals))
       IN  SelectSeq(rest, LAMBDA v : v <= Head(vals)) \o <<Head(vals)>>
             \o SelectSeq(rest, LAMBDA v : v > Head(vals))

median(sorted) ==
  IF Len(sorted) % 2 = 0
  THEN Ratio(sorted[Len(sorted) \div 2] + sorted[Len(sorted) \div 2 + 1], 2)
  ELSE Num(sorted[Len(sorted) \div 2 + 1])

\* Math.sqrt: the integer part of sqrt(x) * scale for a power of ten scale,
\* one decimal digit at a time (root is the integer part so far, rest what is
\* left under the root)
RECURSIVE SqrtDigits(_, _, _)
SqrtDigits(root, rest, scale) ==
  IF scale = 1 THEN root
  ELSE LET digit == CHOOSE c \in 0..9 :
                      /\ (20 * root + c) * c <= 100 * rest
                      /\ c = 9 \/ (20 * root + c + 1) * (c + 1) > 100 * rest
       IN  SqrtDigits(10 * root + digit, 100 * rest - (20 * root + digit) * digit,
                      scale \div 10)

\* Math.sqrt(variance) rounded to the decimal places of scale, where the
\* variance of vals is p / n^2 with p = n * (sum of squares) - sum^2: the
\* nearest integer to sqrt(p) * scale / n is
\* floor((floor(sqrt(4p) * scale) + n) / 2n)
RoundedStd(vals, scale) ==
  LET n == Len(vals)
      p == n * SumOf([i \in 1..n |-> vals[i] * vals[i]]) - SumOf(vals) * SumOf(vals)
      whole == CHOOSE r \in 0..(4 * p) : r * r <= 4 * p /\ (r + 1) * (r + 1) > 4 * p
  IN  Ratio((SqrtDigits(whole, 4 * p - whole * whole, scale) + n) \div (2 * n), scale)

\* csvTools: compute_column_stats and compute_stats_json (key is the name of
\* the field naming the column in the result); fmt is +n.toFixed(4)
ComputeStatsCsvTools(key, name, rows) ==
  LET col == resolveCol(rows, name)
      vals == numericValues(rows, col)
      sorted == SortAscending(vals)
  IN  IF Len(vals) = 0
      THEN [error |-> "No numeric values found", column |-> col,
            available |-> AvailableHeaders(rows)]
      ELSE (key :> col) @@
           [count |-> Len(vals),
            mean |-> ToFixed(Ratio(SumOf(vals), Len(vals)), 10000),
            median |-> ToFixed(median(sorted), 10000),
            std |-> RoundedStd(vals, 10000),
            min |-> Num(sorted[1]),
            max |-> Num(sorted[Len(sorted)])]

\* dataTools.js: compute_stats_json
ComputeStatsDataTools(args, rows) ==
  LET statField == FieldOf(args.field)
      values == SortAscending(numericValues(rows, statField))
  IN  IF Len(values) = 0 THEN [error |-> "No numeric data", field |-> statField]
      ELSE [field |-> statField,
            count |-> Len(values),
            mean |-> ToFixed(Ratio(SumOf(values), Len(values)), 100),
            median |-> median(values),
            std |-> RoundedStd(values, 100),
            min |-> Num(values[1]),
            max |-> Num(values[Len(values)])]

\* The orders [...safeRows].sort(comparator) of get_top_items can leave the
\* rows in, as permutations of the row numbers.  The comparator is the
\* difference of the two numbers, and 0 when either value is not a number.
\* Array.prototype.sort is stable for a consistent comparator; for an
\* inconsistent one (a row without a number compares equal to two rows that
\* differ) the order is implementation-defined.
SortedOrders(rows, sortCol, asc) ==
  LET n == Len(rows)
      value(i) == ParseFloat(Get(rows[i], sortCol))
      cmp(i, j) == IF value(i).k # "nan" /\ value(j).k # "nan"
                   THEN IF asc THEN value(i).n - value(j).n ELSE value(j).n - value(i).n
                   ELSE 0
      perms == {p \in [1..n -> 1..n] : \A i, j \in 1..n : i # j => p[i] # p[j]}
      consistent == \A i, j, l \in 1..n : (cmp(i, j) = 0 /\ cmp(j, l) = 0) => cmp(i, l) = 0
  IN  IF consistent
      THEN {p \in perms : \A i, j \in 1..n :
              i < j => (cmp(p[i], p[j]) < 0 \/ (cmp(p[i], p[j]) = 0 /\ p[i] < p[j]))}
      ELSE perms

\* csvTools: get_top_items, every result it can return (n = 0 is a call
\* without n)
GetTopItems(args, rows) ==
  LET sortCol == resolveCol(rows, args.sort_column)
      n == IF args.n = 0 THEN 10 ELSE args.n
      asc == args.ascending = "true"
      count == IF n < Len(rows) THEN n ELSE Len(rows)
      shown == {"title", "likeCount", "viewCount", "engagement"} \cap AvailableHeaders(rows)
      topRow(r, rank) ==
        [f \in {"rank"} \cup shown |->
           CASE f = "rank" -> Num(rank)
             [] f = "title" -> IF r["title"].k = "text" THEN r["title"] ELSE Blank("empty")
             [] OTHER -> r[f]]
  IN  { IF count = 0
        THEN [error |-> "No rows found", column |-> sortCol,
              available |-> AvailableHeaders(rows)]
        ELSE [sort_column |-> sortCol,
              direction |-> IF asc THEN "ascending (lowest first)"
                            ELSE "descending (highest first)",
              count |-> count,
              tweets |-> [i \in 1..count |-> topRow(rows[p[i]], i)]]
        : p \in SortedOrders(rows, sortCol, asc) }

\* A title or a query is a sequence of words; toLowerCase() for the words of
\* the model, and includes() looking for the words of q at consecutive places.
ToLower(s) ==
  [i \in 1..Len(s) |->
     CASE s[i] = "Cats" -> "cats"
       [] s[i] = "Most" -> "most"
       [] s[i] = "Viewed" -> "viewed"
       [] OTHER -> s[i]]

Includes(s, q) ==
  \E i \in 0..(Len(s) - Len(q)) : SubSeq(s, i + 1, i + Len(q)) = q

\* A cell that is truthy: a non-empty string or a number other than 0
TruthyCell(c) == c.k = "text" \/ (c.k = "num" /\ c.n # 0)

\* The words of a cell used as a string
WordsOf(c) ==
  IF c.k = "text" THEN c.s ELSE IF c.k = "undefined" THEN <<"undefined">> ELSE <<>>

\* The first row with the largest parseFloat(r[col]) || 0, which both the
\* stable descending sort of dataTools.js and the reduce of csvTools pick
MaxRow(rows, col) ==
  LET value(i) == OrZero(ParseFloat(Get(rows[i], col))).n
  IN  CHOOSE i \in 1..Len(rows) :
        /\ \A j \in 1..Len(rows) : value(j) <= value(i)
        /\ \A j \in 1..(i - 1) : value(j) < value(i)

\* rows.find: the first row whose flag in matches is set, 0 when none is
FirstRow(matches) ==
  IF \E i \in 1..Len(matches) : matches[i]
  THEN CHOOSE i \in 1..Len(matches) : matches[i] /\ \A j \in 1..(i - 1) : ~matches[j]
  ELSE 0

\* dataTools.js: play_video
PlayVideoDataTools(args, rows) ==
  LET searchTitle == ToLower(args.title)
      found == FirstRow([i \in 1..Len(rows) |->
                 /\ TruthyCell(Get(rows[i], "title"))
                 /\ Includes(ToLower(WordsOf(Get(rows[i], "title"))), searchTitle)])
      video ==
        IF found # 0 THEN found
        ELSE IF Len(rows) = 0 THEN 0
        ELSE IF Includes(searchTitle, <<"most", "viewed">>) THEN MaxRow(rows, "viewCount")
        ELSE IF Includes(searchTitle, <<"most", "liked">>) THEN MaxRow(rows, "likeCount")
        ELSE 1
  IN  IF video = 0 THEN [error |-> "Video not found."]
      ELSE [_playVideo |-> TRUE,
            title |-> Get(rows[video], "title"),
            url |-> IF TruthyCell(Get(rows[video], "videoUrl"))
                    THEN Get(rows[video], "videoUrl")
                    ELSE Text(<<"https://youtube.com/watch?v=">>
                              \o WordsOf(Get(rows[video], "videoId"))),
            thumbnailUrl |-> Get(rows[video], "thumbnailUrl")]

\* csvTools: the special query a play_video query is, by the regular
\* expressions tested in turn, "none" for a title to search
SpecialQuery(q) ==
  CASE q \in {<<"first">>, <<"1st">>, <<"one">>} -> "first"
    [] q \in {<<"last">>, <<"latest">>} -> "last"
    [] q \in {<<"most", "viewed">>, <<"most", "popular">>, <<"top", "video">>,
              <<"highest", "views">>} -> "viewed"
    [] Len(q) >= 2 /\ SubSeq(q, 1, 2) \in
         {<<"most", "liked">>, <<"most", "loved">>, <<"highest", "likes">>,
          <<"top", "liked">>, <<"most", "like">>} -> "liked"
    [] OTHER -> "none"

\* csvTools: play_video
PlayVideoCsvTools(args, rows) ==
  LET titleQuery == TrimStr(ToLower(args.title))
      headers == AvailableHeaders(rows)
      special == SpecialQuery(titleQuery)
      bestMatch ==
        IF special = "first" /\ Len(rows) > 0 THEN 1
        ELSE IF special = "last" /\ Len(rows) > 0 THEN Len(rows)
        ELSE IF special \in {"first", "last"} \/ special = "none"
             THEN FirstRow([i \in 1..Len(rows) |->
                    Includes(ToLower(WordsOf(IF TruthyCell(Get(rows[i], "title"))
                                             THEN Get(rows[i], "title")
                                             ELSE Blank("empty"))),
                             titleQuery)])
        ELSE IF Len(rows) = 0 THEN 0
        ELSE IF special = "viewed" /\ "viewCount" \in headers THEN MaxRow(rows, "viewCount")
        ELSE IF special = "liked" /\ "likeCount" \in headers THEN MaxRow(rows, "likeCount")
        ELSE 1
  IN  IF "title" \notin headers \/ "videoUrl" \notin headers
      THEN [error |-> "Cannot find required columns", available |-> headers]
      ELSE IF bestMatch = 0 \/ ~TruthyCell(Get(rows[bestMatch], "title"))
      THEN [error |-> "No video found matching", query |-> args.title]
      ELSE IF ~TruthyCell(Get(rows[bestMatch], "videoUrl"))
      THEN [error |-> "found but missing URL", video |-> Get(rows[bestMatch], "title")]
      ELSE [_playVideo |-> TRUE,
            title |-> Get(rows[bestMatch], "title"),
            thumbnailUrl |-> IF "thumbnailUrl" \in headers
                             THEN Get(rows[bestMatch], "thumbnailUrl") ELSE Blank("null"),
            url |-> Get(rows[bestMatch], "videoUrl"),
            message |-> <<"Playing:", Get(rows[bestMatch], "title")>>]

\* plot_metric_vs_time.  A date cell is the number of its day (new Date(v)
\* of a date string), so the sort by date is the sort by that number; a point
\* keeps the time value and the metric value of its row.

\* dataTools.js: the metric is mapped by substring, the time column is
\* releaseDate whatever the call names
PlotMetricDataTools(args, rows) ==
  LET plotMetric == FieldOf(args.metric)
      valid == SelectSeq(rows, LAMBDA r :
                 Get(r, plotMetric).k # "undefined" /\ TruthyCell(Get(r, "releaseDate")))
  IN  IF Len(valid) = 0
      THEN {[error |-> "No valid data for", metric |-> plotMetric]}
      ELSE {[_chartType |-> "timeSeries",
             metric |-> plotMetric,
             data |-> [i \in 1..Len(valid) |->
                         [x |-> Get(valid[p[i]], "releaseDate"),
                          y |-> OrZero(ParseFloat(Get(valid[p[i]], plotMetric))),
                          label |-> Get(valid[p[i]], "title")]]] :
              p \in SortedOrders(valid, "releaseDate", TRUE)}

\* csvTools: both columns are resolved from the arguments
PlotMetricCsvTools(args, rows) ==
  LET metricCol == resolveCol(rows, args.metric)
      timeCol == resolveCol(rows, args.time_column)
      valid == SelectSeq(rows, LAMBDA r :
                 TruthyCell(Get(r, timeCol)) /\ ParseFloat(Get(r, metricCol)).k # "nan")
  IN  IF Len(valid) = 0
      THEN {[error |-> "No valid data points for", metric |-> metricCol,
             timeColumn |-> timeCol, available |-> AvailableHeaders(rows)]}
      ELSE {[_chartType |-> "timeSeries",
             metric |-> metricCol,
             timeColumn |-> timeCol,
             data |-> [i \in 1..Len(valid) |->
                         [name |-> Get(valid[p[i]], timeCol),
                          value |-> ParseFloat(Get(valid[p[i]], metricCol))]],
             count |-> Len(valid)] :
              p \in SortedOrders(valid, timeCol, TRUE)}

\* default: return { error: `Unknown tool: ${name}` }
UnknownTool(name) == [error |-> "Unknown tool", name |-> name]

\* The handlers whose results no property of the data functions looks into
\* (generateImage, get_value_counts): the payload of the
\* tool, or the error object of a failed request or of a dataset without data.
OtherHandler(name) == { [handledBy |-> name], [error |-> "failed", tool |-> name] }

\* Every value executeTool(name, args, rows) can return under executor ex.
executeToolWith(ex, name, args, rows) ==
  IF ex = "dataTools"
  THEN CASE name = "generateImage" -> OtherHandler(name)
         [] name = "plot_metric_vs_time" -> PlotMetricDataTools(args, rows)
         [] name = "play_video" -> {PlayVideoDataTools(args, rows)}
         [] name = "compute_stats_json" -> {ComputeStatsDataTools(args, rows)}
         [] OTHER -> {UnknownTool(name)}
  ELSE CASE name = "compute_column_stats" ->
              {ComputeStatsCsvTools("column", args.column, rows)}
         [] name = "get_top_items" -> GetTopItems(args, rows)
         [] name \in {"get_value_counts", "generateImage"} -> OtherHandler(name)
         [] name = "plot_metric_vs_time" -> PlotMetricCsvTools(args, rows)
         [] name = "play_video" -> {PlayVideoCsvTools(args, rows)}
         [] name = "compute_stats_json" ->
              {ComputeStatsCsvTools("field", args.field, rows)}
         [] OTHER -> {UnknownTool(name)}

\* The calls of executeTool: every tool name of either implementation and two
\* other names, on no rows and on two rows; the statistics tools over columns
\* of integers and entries that are not numbers; get_top_items over rows with
\* distinct titles; play_video over datasets with and without a videoUrl
\* column; plot_metric_vs_time over rows dated in a releaseDate or in a
\* publishedAt column, with metric and date cells that are numbers or empty.
ToolCalls ==
  LET defaults == [column |-> "viewCount", field |-> "viewCount",
                   sort_column |-> "viewCount", n |-> 0, ascending |-> "undefined",
                   title |-> <<"cats">>, metric |-> "viewCount",
                   time_column |-> "releaseDate"]
      sample == << [title |-> Text(<<"Cats">>), viewCount |-> Num(3), likeCount |-> Num(1),
                    videoUrl |-> Text(<<"u1">>)],
                   [title |-> Text(<<"Dogs">>), viewCount |-> Num(2), likeCount |-> Num(2),
                    videoUrl |-> Text(<<"u2">>)] >>
      statCells == {Num(1), Num(2), Num(3), Num(4), Text(<<"abc">>)}
      topCells == {Num(5), Num(10), Num(20), Text(<<"abc">>)}
      rowTitles == <<"r1", "r2", "r3", "r4">>
      titles == {Text(<<"Cats">>), Text(<<"my", "Most", "Viewed", "clip">>), Blank("empty")}
      videoRows ==
        {[title |-> t, viewCount |-> v, likeCount |-> Num(1)] :
           t \in titles, v \in {Num(2), Num(3)}}
          \cup {[title |-> t, viewCount |-> v, likeCount |-> Num(1), videoUrl |-> u] :
                  t \in titles, v \in {Num(2), Num(3)}, u \in {Text(<<"u1">>), Blank("empty")}}
      plotRows(timeCol) ==
        {[key \in {"title", "viewCount", timeCol} |->
            IF key = "title" THEN Text(<<"Cats">>) ELSE IF key = "viewCount" THEN v ELSE d] :
           v \in {Num(5), Num(7), Blank("empty")}, d \in {Num(1), Num(2), Blank("empty")}}
  IN  [name : {"compute_column_stats", "compute_stats_json", "get_value_counts",
               "get_top_items", "plot_metric_vs_time", "play_video", "generateImage",
               "bogus", "toString"},
       args : {defaults}, rows : {<<>>, sample}]
      \cup [name : {"compute_column_stats", "compute_stats_json"},
            args : {[column |-> col, field |-> col] :
                      col \in {"viewCount", "view_count", "title"}},
            rows : SeqsUpTo({[viewCount |-> v] : v \in statCells}, MaxStatRows)]
      \cup [name : {"get_top_items"},
            args : [sort_column : {"viewCount"}, n : 0..2,
                    ascending : {"undefined", "true", "false"}],
            rows : {[i \in 1..Len(vals) |->
                       [title |-> Text(<<rowTitles[i]>>), viewCount |-> vals[i]]] :
                      vals \in SeqsUpTo(topCells, MaxTopRows)}]
      \cup [name : {"play_video"},
            args : {[title |-> q] :
                      q \in {<<>>, <<"cats">>, <<"dogs">>, <<"Most", "Viewed">>,
                             <<"most", "liked">>, <<"first">>}},
            rows : {rows \in SeqsUpTo(videoRows, MaxVideoRows) :
                      \A i \in 1..Len(rows) : DOMAIN rows[i] = DOMAIN rows[1]}]
      \cup UNION {[name : {"plot_metric_vs_time"},
                   args : [metric : {"viewCount", "view_count"}, time_column : {timeCol}],
                   rows : SeqsUpTo(plotRows(timeCol), MaxPlotRows)] :
                    timeCol \in {"releaseDate", "publishedAt"}}

CallExecuteTool(call) ==
  /\ fnName' = "executeTool"
  /\ fnArgs' = call
  /\ fnResult' \in executeToolWith(executor, call.name, call.args, call.rows)
  /\ UNCHANGED <<toolVars, chatVars, promptVars, download>>

\* ------------------------------------------------------------------------
\* components/YouTubeDownload.js: the download of a channel over an event
\* stream
\* ------------------------------------------------------------------------

MaxDownloads == 3
MaxProgress == 3

\* The state after the first render: es is the EventSource of eventSourceRef
\* ("none" for null), loadingAtStart the `loading` that the handlers of that
\* EventSource closed over, started the number of downloads started, event the
\* last event handled.
NoDownload ==
  [loading |-> FALSE, error |-> "", result |-> FALSE, current |-> 0, total |-> 0,
   message |-> "", es |-> "none", loadingAtStart |-> FALSE, started |-> 0,
   event |-> "none"]

\* handleDownload with the URL and the number of videos of the form: return
\* on an empty URL or while loading; else reset the state and open the
\* EventSource, whose onmessage and onerror are created in this invocation
\* and see its `loading`.
handleDownload(channelUrl, maxVideos) ==
  /\ download.started < MaxDownloads
  /\ IF channelUrl = "" \/ download.loading
     THEN download' = download
     ELSE download' = [loading |-> TRUE, error |-> "", result |-> FALSE, current |-> 0,
                       total |-> maxVideos, message |-> "Starting...", es |-> "open",
                       loadingAtStart |-> download.loading,
                       started |-> download.started + 1, event |-> "start"]
  /\ UNCHANGED <<toolVars, chatVars, promptVars, fnVars>>

\* es.onmessage: a progress event with the counts the server sent, a complete
\* or an error event, or data that is not JSON ("malformed"), which is logged
\* and ignored.
OnMessage(type, current) ==
  /\ download.es = "open"
  /\ CASE type = "progress" ->
            download' = [download EXCEPT !.current = current, !.total = MaxProgress,
                                         !.message = "progress", !.event = "progress"]
       [] type = "complete" ->
            download' = [download EXCEPT !.result = TRUE, !.loading = FALSE,
                                         !.es = "closed", !.event = "complete"]
       [] type = "error" ->
            download' = [download EXCEPT !.error = "server message", !.loading = FALSE,
                                         !.es = "closed", !.event = "error"]
       [] OTHER -> download' = [download EXCEPT !.event = "malformed"]
  /\ UNCHANGED <<toolVars, chatVars, promptVars, fnVars>>

\* es.onerror: the connection failed or was lost
OnError ==
  /\ download.es = "open"
  /\ IF download.loadingAtStart
     THEN download' = [download EXCEPT !.error = "Connection lost. Please try again.",
                                       !.loading = FALSE, !.es = "closed",
                                       !.event = "connectionError"]
     ELSE download' = [download EXCEPT !.es = "closed", !.event = "connectionError"]
  /\ UNCHANGED <<toolVars, chatVars, promptVars, fnVars>>

\* handleStop of YouTubeDownload.js
handleStopDownload ==
  /\ download.es # "none"
  /\ download' = [download EXCEPT !.es = "closed", !.loading = FALSE,
                                  !.message = "Cancelled.", !.event = "stop"]
  /\ UNCHANGED <<toolVars, chatVars, promptVars, fnVars>>

NextDownload ==
  \/ \E channelUrl \in {"", "url"}, maxVideos \in {1, 10} :
       handleDownload(channelUrl, maxVideos)
  \/ \E type \in {"progress", "complete", "error", "malformed"}, current \in 1..MaxProgress :
       OnMessage(type, current)
  \/ OnError
  \/ handleStopDownload

\* No data function has been called.
InitFn ==
  /\ fnName = "none"
  /\ fnArgs = <<>>
  /\ fnResult = <<>>

InitChat ==
  /\ sessions = <<>>
  /\ activeSessionId = "null"
  /\ messages = <<>>
  /\ csvContext = FALSE
  /\ dataset = [rows |-> "none", headers |-> "none", summary |-> "none", slim |-> "none"]
  /\ streaming = FALSE
  /\ abortRef = FALSE
  /\ justCreatedSessionRef = FALSE
  /\ turn = [t \in Turns |-> NoTurn]
  /\ started = 0
  /\ sessionsLoading = TRUE
  /\ pendingLoads = {}
  /\ pendingDeletes = {}
  /\ navigations = 0
  /\ dbSessions = OldSessions
  /\ dbMessages = <<[sid |-> "old", role |-> "user", turn |-> 0, content |-> <<"hello">>]>>
  /\ saved = <<>>
  /\ newCreates = 0
  /\ log = [t \in Turns |-> <<>>]

\* The stream events drawn in Spec: the first text chunk only.
FirstChunkEvents == {ev \in StreamEvents : ev.type = "text" /\ ev.text = ChunkText[1]}

AllSessionIds ==
  {OldSessions[i] : i \in 1..Len(OldSessions)} \cup {NewIds[i] : i \in 1..Len(NewIds)}

\* The controller without attachments: handleDrop is left to the specification
\* of the dataset context, so here only the image-generation heuristic routes
\* a turn to the tool path; streams are cut after their first text chunk.
Next ==
  \/ LoadInitialSessions
  \/ handleNewChat
  \/ \E sessionId \in AllSessionIds : handleSelectSession(sessionId)
  \/ \E sessionId \in AllSessionIds : handleDeleteSession(sessionId)
  \/ \E d \in pendingDeletes : DeleteSessionResolves(d)
  \/ \E sessionId \in pendingLoads : LoadMessagesResolves(sessionId)
  \/ handleStop
  \/ \E text, wantsImageGeneration \in BOOLEAN : handleSend(text, wantsImageGeneration)
  \/ \E t \in Turns : CreateSessionResolves(t)
  \/ \E t \in Turns : StoreCallFails(t)
  \/ \E t \in Turns : SaveUserResolves(t)
  \/ \E t \in Turns, ret \in UNION {ChatWithCsvToolsReturns(ex) : ex \in Executors} :
       ChatWithCsvToolsReturnsTo(t, ret)
  \/ \E t \in Turns : ModelCallThrows(t)
  \/ \E t \in Turns, chunk \in FirstChunkEvents : StreamYields(t, chunk)
  \/ \E t \in Turns : StreamCompletes(t)
  \/ \E t \in Turns : SaveModelResolves(t)

InitTools ==
  /\ executor \in Executors
  /\ tpc = "idle"
  /\ response = NoResponse
  /\ round = 0
  /\ charts = <<>>
  /\ toolCalls = <<>>
  /\ funcName = "none"
  /\ safeResult = NoObject
  /\ sent = <<>>
  /\ executed = <<>>
  /\ returned = [text |-> "t1", charts |-> <<>>, toolCalls |-> <<>>]

NextTools ==
  \/ CallChatWithCsvTools
  \/ \E resp \in Responses : FirstResponse(resp)
  \/ \E toolResult \in UNION {executeTool(ex, n) : ex \in Executors, n \in ToolNames} :
       ToolReturns(toolResult)
  \/ \E resp \in Responses : ReplyArrives(resp)
  \/ CallThrows

\* One call of chatWithCsvTools, the controller at rest.
InitToolsOnly ==
  InitTools /\ InitChat /\ InitLoad({"v2"}) /\ InitFn /\ download = NoDownload

SpecTools == InitToolsOnly /\ [][NextTools]_vars

\* Every pending model call and tool execution eventually returns or rejects.
FairSpecTools == SpecTools /\ WF_vars(NextTools)

\* The chat controller, with the executeTool that Chat.js imports.
Init ==
  /\ InitChat /\ InitTools /\ executor = "dataTools" /\ InitLoad({"v2"}) /\ InitFn
  /\ download = NoDownload

Spec == Init /\ [][Next]_vars

\* The turns of one session in detail: no navigation, and streamChat yields
\* every event it can.
NextStream ==
  \/ LoadInitialSessions
  \/ handleStop
  \/ \E text, wantsImageGeneration \in BOOLEAN : handleSend(text, wantsImageGeneration)
  \/ \E t \in Turns : CreateSessionResolves(t)
  \/ \E t \in Turns : SaveUserResolves(t)
  \/ \E t \in Turns, ret \in ChatWithCsvToolsReturns("dataTools") :
       ChatWithCsvToolsReturnsTo(t, ret)
  \/ \E t \in Turns : ModelCallThrows(t)
  \/ \E t \in Turns, chunk \in StreamEvents : StreamYields(t, chunk)
  \/ \E t \in Turns : StreamCompletes(t)
  \/ \E t \in Turns : SaveModelResolves(t)

SpecStream == Init /\ [][NextStream]_vars

\* The dataset context: attachments, New Chat, session selection and sends.
NextData ==
  \/ LoadInitialSessions
  \/ \E file \in Files : handleDrop(file)
  \/ handleNewChat
  \/ \E sessionId \in AllSessionIds : handleSelectSession(sessionId)
  \/ \E sessionId \in pendingLoads : LoadMessagesResolves(sessionId)
  \/ \E text, wantsImageGeneration \in BOOLEAN : handleSend(text, wantsImageGeneration)
  \/ \E t \in Turns : CreateSessionResolves(t)
  \/ \E t \in Turns : SaveUserResolves(t)
  \/ \E t \in Turns, ret \in ChatWithCsvToolsReturns("dataTools") :
       ChatWithCsvToolsReturnsTo(t, ret)
  \/ \E t \in Turns, chunk \in FirstChunkEvents : StreamYields(t, chunk)
  \/ \E t \in Turns : StreamCompletes(t)
  \/ \E t \in Turns : SaveModelResolves(t)

SpecData == Init /\ [][NextData]_vars

\* The turns of one session with every outcome of the store calls and of the
\* model call: no navigation, no stop; streams are cut after their first text
\* chunk.
NextTurn ==
  \/ LoadInitialSessions
  \/ \E text, wantsImageGeneration \in BOOLEAN : handleSend(text, wantsImageGeneration)
  \/ \E t \in Turns : CreateSessionResolves(t)
  \/ \E t \in Turns : StoreCallFails(t)
  \/ \E t \in Turns : SaveUserResolves(t)
  \/ \E t \in Turns, ret \in ChatWithCsvToolsReturns("dataTools") :
       ChatWithCsvToolsReturnsTo(t, ret)
  \/ \E t \in Turns : ModelCallThrows(t)
  \/ \E t \in Turns, chunk \in FirstChunkEvents : StreamYields(t, chunk)
  \/ \E t \in Turns : StreamCompletes(t)
  \/ \E t \in Turns : SaveModelResolves(t)

\* Every pending promise settles: the store answers or fails, the model call
\* returns, throws, or its stream goes on and ends.  The user is not obliged
\* to send.
FairSpecTurn ==
  /\ Init
  /\ [][NextTurn]_vars
  /\ WF_vars(LoadInitialSessions)
  /\ \A t \in Turns :
       WF_vars(\/ CreateSessionResolves(t)
               \/ StoreCallFails(t)
               \/ SaveUserResolves(t)
               \/ \E ret \in ChatWithCsvToolsReturns("dataTools") :
                    ChatWithCsvToolsReturnsTo(t, ret)
               \/ ModelCallThrows(t)
               \/ \E chunk \in FirstChunkEvents : StreamYields(t, chunk)
               \/ StreamCompletes(t)
               \/ SaveModelResolves(t))

\* The system prompt cache, the controller at rest.
InitPrompt ==
  /\ InitChat /\ InitTools /\ executor = "dataTools" /\ InitLoad(PromptFiles) /\ InitFn
  /\ download = NoDownload

SpecPrompt == InitPrompt /\ [][NextLoad]_vars

\* The data functions alone: one call of one function, under either
\* implementation of the tools.
InitFunctions ==
  InitChat /\ InitTools /\ InitLoad({"v2"}) /\ InitFn /\ download = NoDownload

NextFunctions ==
  \/ fnName = "none" /\ \E input \in EnrichInputs : CallEnrichWithEngagement(input)
  \/ fnName = "none" /\ \E input \in CsvInputs : CallParseCsvToRows(input)
  \/ fnName = "none" /\ \E text \in JsonTexts : CallParseJSON(text)
  \/ fnName = "none" /\ \E call \in ToolCalls : CallExecuteTool(call)

SpecFunctions == InitFunctions /\ [][NextFunctions]_vars

\* The YouTube download alone, the chat at rest.  Every event stream ends: the
\* server sends complete or error, or the connection fails.  The user is not
\* obliged to press Stop.
FairSpecDownload ==
  /\ Init
  /\ [][NextDownload]_vars
  /\ WF_vars(OnMessage("complete", 1) \/ OnMessage("error", 1) \/ OnError)

\* ------------------------------------------------------------------------
\* Properties of chatWithCsvTools
\* ------------------------------------------------------------------------

Last(s) == s[Len(s)]

IsPrefix(s, t) == Len(s) <= Len(t) /\ \A i \in 1..Len(s) : s[i] = t[i]

\* C1: one call of chatWithCsvTools executes at most 5 tools and sends at
\* most 5 function-response turns, whatever the model answers.
C1_AtMostFiveRounds ==
  /\ Len(executed) <= MaxRounds
  /\ Len(sent) <= MaxRounds

\* The limit is hit: five tools ran and the model still asks for another one.
C1_Witness ==
  /\ tpc = "done"
  /\ Len(executed) = MaxRounds
  /\ Len(sent) = MaxRounds
  /\ response.call # "none"

\* C2: no functionResponse sent to the model has an inlineData field, also
\* when the tool result had one.
C2_NoInlineDataSent ==
  \A i \in 1..Len(sent) : "inlineData" \notin DOMAIN sent[i].result

\* A tool result with inlineData was executed and its response was sent.
C2_Witness ==
  \E i \in 1..Len(sent) :
    /\ "inlineData" \in DOMAIN executed[i].result
    /\ DOMAIN sent[i].result = DOMAIN executed[i].result \ {"inlineData"}

\* C3: no functionResponse sent to the model carries raw image bytes under
\* any field.
C3_NoRawBytesSent ==
  \A i \in 1..Len(sent) :
    \A f \in DOMAIN sent[i].result : sent[i].result[f] \notin RawImageValues

\* C4: a tool result with an error field ends the loop: it is the last tool
\* executed, it was relayed to the model as one function response, and the
\* function returns on the model's reply even if that reply asks for a tool.
C4_ErrorStopsLoop ==
  /\ \A i \in 1..Len(executed) : HasError(executed[i].result) => i = Len(executed)
  /\ (Len(executed) > 0 /\ HasError(Last(executed).result)) =>
       /\ tpc \in {"awaitReply", "done", "failed"}
       /\ Len(sent) = Len(executed)
       /\ Last(sent) = [name |-> Last(executed).name, result |-> Last(executed).result]

\* An error result was relayed, the model's reply asked for another tool, and
\* the function returned before the round limit.
C4_Witness ==
  /\ tpc = "done"
  /\ Len(executed) \in 1..(MaxRounds - 1)
  /\ HasError(Last(executed).result)
  /\ response.call # "none"

\* C5: toolCalls and charts only grow; toolCalls is the log of the tool
\* invocations in order, charts is the subsequence of their results tagged
\* _chartType or _playVideo, and both are returned as they are.
SelectResults(calls) ==
  LET tagged == SelectSeq(calls, LAMBDA c : IsChart(c.result))
  IN  [i \in 1..Len(tagged) |-> tagged[i].result]

C5_LogAndChartsAppendOnly ==
  /\ [](/\ toolCalls = executed
        /\ charts = SelectResults(executed)
        /\ tpc = "done" => (returned.toolCalls = toolCalls /\ returned.charts = charts))
  /\ [][IsPrefix(toolCalls, toolCalls') /\ IsPrefix(charts, charts')]_vars

\* A finished call with several tool invocations, some charts and some not.
C5_Witness ==
  /\ tpc = "done"
  /\ Len(toolCalls) >= 3
  /\ Len(charts) >= 2
  /\ Len(charts) < Len(toolCalls)

\* C6: if no call rejects, chatWithCsvTools returns; a response without a
\* functionCall part ends it at once, with no tool executed for it, and the
\* value returned is that last response's text with charts and toolCalls.
C6_ReachesDone ==
  /\ <>(tpc \in {"done", "failed"})
  /\ [](tpc \in {"executing", "awaitReply"} => response.call # "none")
  /\ [](tpc = "done" =>
         returned = [text |-> response.text, charts |-> charts, toolCalls |-> toolCalls])
  /\ [][(tpc = "awaitReply" /\ response'.call = "none")
          => (tpc' = "done" /\ executed' = executed /\ sent' = sent)]_vars

\* The call returned on a response without a functionCall after some tools ran.
C6_Witness ==
  /\ tpc = "done"
  /\ response.call = "none"
  /\ Len(executed) \in 1..(MaxRounds - 1)
  /\ ~HasError(Last(executed).result)
  /\ returned.text = "t2"

\* ------------------------------------------------------------------------
\* Properties of the chat controller
\* ------------------------------------------------------------------------

\* The saveMessage calls of invocation t for a role that the store acknowledged.
SavedOf(t, role) == SelectSeq(saved, LAMBDA r : r.turn = t /\ r.role = role)

Occurrences(sq, x) == Len(SelectSeq(sq, LAMBDA e : e = x))

ModelEnded(t) ==
  \E o \in {"finished", "error", "cancelled"} : InSeq("modelEnded:" \o o, log[t])

\* C7: for the first message sent in a "new" session createSession is
\* called exactly once, also when a second send is issued while the call is
\* pending.
C7_SessionCreatedOnce == newCreates <= 1

\* C8: a send in a "new" session saves one user and one assistant message,
\* both under the id createSession returned, and the step that makes this id
\* the active one keeps the message list (with the new user message added),
\* consumes the ref and starts no reload.
C8_NewSessionTurn ==
  /\ [](\A t \in Turns :
          turn[t].sessionId = NewIds[t] =>
            /\ \A i \in 1..Len(saved) : saved[i].turn = t => saved[i].sid = NewIds[t]
            /\ Len(SavedOf(t, "user")) <= 1
            /\ Len(SavedOf(t, "model")) <= 1
            /\ turn[t].pc = "done" =>
                 (Len(SavedOf(t, "user")) = 1 /\ Len(SavedOf(t, "model")) = 1))
  /\ [][\A t \in Turns :
          (turn[t].pc = "creating" /\ turn'[t].pc \notin {"creating", "rejected"}) =>
            /\ activeSessionId' = NewIds[t]
            /\ messages' = Append(messages, Msg(t, "user", "local", UserContent))
            /\ pendingLoads' = pendingLoads
            /\ justCreatedSessionRef' = FALSE]_vars

\* A turn that created its session has ended, the session is the active one
\* and both its messages are in the in-memory list.
C8_Witness ==
  \E t \in Turns :
    /\ turn[t].pc = "done"
    /\ turn[t].sessionId = NewIds[t]
    /\ activeSessionId = NewIds[t]
    /\ \E i, j \in 1..Len(messages) :
         /\ i < j
         /\ messages[i] = Msg(t, "user", "local", UserContent)
         /\ IsAssistantOf(messages[j], t)

\* C9: every handleSend that passed its guard issues saveMessage at most
\* once per role; it has issued the one for the user message once it is past
\* the message composition, and the one for the assistant message as soon as
\* the model invocation has ended, however it ended; when handleSend has run
\* to its end the store has acknowledged exactly one of each.
C9_OneSavePerRole ==
  \A t \in Turns :
    /\ Occurrences(log[t], "userSaveIssued") <= 1
    /\ Occurrences(log[t], "modelSaveIssued") <= 1
    /\ Len(SavedOf(t, "user")) <= Occurrences(log[t], "userSaveIssued")
    /\ Len(SavedOf(t, "model")) <= Occurrences(log[t], "modelSaveIssued")
    /\ turn[t].pc \in {"savingUser", "tools", "stream", "savingModel", "done"} =>
         Occurrences(log[t], "userSaveIssued") = 1
    /\ ModelEnded(t) => Occurrences(log[t], "modelSaveIssued") = 1
    /\ turn[t].pc = "done" =>
         (Len(SavedOf(t, "user")) = 1 /\ Len(SavedOf(t, "model")) = 1)

\* One turn ended after the model call failed, another after a cancellation.
C9_Witness ==
  \E t1, t2 \in Turns :
    /\ turn[t1].pc = "done" /\ InSeq("modelEnded:error", log[t1])
    /\ turn[t2].pc = "done" /\ InSeq("modelEnded:cancelled", log[t2])

\* C10: in every turn the user message's saveMessage has completed before
\* the model is invoked, and the model invocation has ended before the
\* assistant message's saveMessage is issued.
TurnOrder(o) ==
  <<"userSaveIssued", "userSaved", "modelInvoked", "modelEnded:" \o o,
    "modelSaveIssued", "modelSaved">>

C10_SaveModelSaveOrder ==
  \A t \in Turns :
    \E o \in {"finished", "error", "cancelled"} : IsPrefix(log[t], TurnOrder(o))

\* Two turns ran to their end, one on the tool path and one on the stream.
C10_Witness ==
  \E t1, t2 \in Turns :
    /\ turn[t1].pc = "done" /\ turn[t1].useTools /\ Len(log[t1]) = 6
    /\ turn[t2].pc = "done" /\ ~turn[t2].useTools /\ Len(log[t2]) = 6
    /\ turn[t2].fullContent = <<ChunkText[1]>>

\* ------------------------------------------------------------------------
\* Properties of one turn: the stream, its display and what is persisted
\* ------------------------------------------------------------------------

\* The assistant message of invocation t in the in-memory list.
AssistantMsgs(t) ==
  {messages[i] : i \in {j \in 1..Len(messages) : IsAssistantOf(messages[j], t)}}

\* The first k chunks of the stream, as one text.
Chunks(k) == SubSeq(ChunkText, 1, k)

\* The content of the assistant message the store acknowledged for t.
PersistedContent(t) == SavedOf(t, "model")[1].content

Failed(t) == InSeq("modelEnded:error", log[t])
Cancelled(t) == InSeq("modelEnded:cancelled", log[t])

\* The events of t's stream that handleSend applied: all that were yielded,
\* but the one at which it observed the stop.
Applied(t) ==
  IF Cancelled(t) THEN SubSeq(turn[t].events, 1, Len(turn[t].events) - 1)
  ELSE turn[t].events

\* C11: when the model call throws, on the stream or on the tool path, the
\* assistant message shows the error text, and the assistant message the turn
\* persists has exactly that text as content.
C11_ErrorShownAndPersisted ==
  \A t \in Turns :
    Failed(t) =>
      /\ turn[t].pc \in {"savingModel", "done"}
      /\ \E m \in AssistantMsgs(t) : m.content = ErrText
      /\ \A m \in AssistantMsgs(t) : m.content = ErrText
      /\ turn[t].pc = "done" =>
           (Len(SavedOf(t, "model")) = 1 /\ PersistedContent(t) = ErrText)

\* A stream failed after two chunks were shown, a tool call failed, and both
\* turns persisted the error text.
C11_Witness ==
  \E t1, t2 \in Turns :
    /\ Failed(t1) /\ ~turn[t1].useTools /\ turn[t1].yielded = 2
    /\ Failed(t2) /\ turn[t2].useTools
    /\ turn[t1].pc = "done" /\ PersistedContent(t1) = ErrText
    /\ turn[t2].pc = "done" /\ PersistedContent(t2) = ErrText

\* C12: streamChat yields text events, then at most one fullResponse, then
\* at most one grounding: no text event comes after a fullResponse or a
\* grounding, no fullResponse after a grounding, and the sequence is no longer
\* than the model's stream plus two.
EventRank(type) ==
  CASE type = "text" -> 0 [] type = "fullResponse" -> 1 [] type = "grounding" -> 2

C12_StreamEventOrder ==
  \A t \in Turns :
    LET events == turn[t].events
    IN  /\ \A i, j \in 1..Len(events) : i < j => EventRank(events[i]) <= EventRank(events[j])
        /\ Occurrences(events, "fullResponse") <= 1
        /\ Occurrences(events, "grounding") <= 1
        /\ Len(events) <= MaxChunks + 2

\* A stream of text chunks, a fullResponse and a grounding event, in this order.
C12_Witness ==
  \E t \in Turns :
    /\ turn[t].pc = "done"
    /\ turn[t].events = <<"text", "text", "fullResponse", "grounding">>

TextParts(parts) == SelectSeq(parts, LAMBDA p : p.type = "text")

\* The texts of parts one after the other, and the same with a line break
\* between two of them.
TextsConcatenated(parts) ==
  [i \in 1..Len(TextParts(parts)) |-> TextParts(parts)[i].text]

TextsOnLines(parts) ==
  [i \in 1..(2 * Len(TextParts(parts)) - 1) |->
     IF i % 2 = 1 THEN TextParts(parts)[(i + 1) \div 2].text ELSE "\n"]

\* C14 as stated: on the stream path the persisted assistant content is the
\* concatenation of the text parts when a fullResponse was received, and
\* otherwise the text chunks applied, in order.
C14_PersistedIsConcatenation ==
  \A t \in Turns :
    (turn[t].pc = "done" /\ ~turn[t].useTools) =>
      PersistedContent(t) =
        IF turn[t].structuredParts # <<>>
        THEN TextsConcatenated(turn[t].structuredParts)
        ELSE Chunks(turn[t].yielded)

\* C14, amended: on the stream path the persisted assistant content is the
\* text parts joined by line breaks when a fullResponse was received, the
\* error text when the stream failed, and otherwise the text chunks applied,
\* in order.
C14_PersistedIsJoinedParts ==
  \A t \in Turns :
    (turn[t].pc = "done" /\ ~turn[t].useTools) =>
      PersistedContent(t) =
        IF turn[t].structuredParts # <<>> THEN TextsOnLines(turn[t].structuredParts)
        ELSE IF Failed(t) THEN ErrText
        ELSE Chunks(turn[t].yielded)

\* A turn streamed two chunks, received a fullResponse with two text parts
\* around an image, and persisted the two texts on two lines.
C14_Witness ==
  \E t \in Turns :
    /\ turn[t].pc = "done"
    /\ turn[t].yielded = 2
    /\ Len(TextParts(turn[t].structuredParts)) = 2
    /\ PersistedContent(t) = <<"p1", "\n", "p2">>

\* C15: consuming a grounding event changes neither the content nor the
\* parts of the assistant message nor the text to persist; the metadata is
\* attached to the message when the stream has ended, in a step that changes
\* nothing else of it, and the persisted content is the one the text and the
\* parts alone determine.
C15_GroundingOnlyAttaches ==
  /\ [][\A t \in Turns :
          (~turn[t].groundingData /\ turn'[t].groundingData) =>
            /\ messages' = messages
            /\ turn'[t].fullContent = turn[t].fullContent
            /\ turn'[t].structuredParts = turn[t].structuredParts]_vars
  /\ [][\A i \in 1..Len(messages) :
          (Len(messages') = Len(messages) /\ messages'[i].grounding # messages[i].grounding) =>
            messages'[i] = [messages[i] EXCEPT !.grounding = TRUE]]_vars
  /\ [](\A t \in Turns :
          (turn[t].groundingData /\ turn[t].pc \in {"savingModel", "done"}) =>
            /\ \A m \in AssistantMsgs(t) :
                 /\ m.grounding
                 /\ m.parts = turn[t].structuredParts
                 /\ m.content = IF m.parts # <<>> THEN <<>> ELSE Chunks(turn[t].yielded)
            /\ turn[t].pc = "done" =>
                 PersistedContent(t) =
                   IF turn[t].structuredParts # <<>>
                   THEN TextsOnLines(turn[t].structuredParts)
                   ELSE Chunks(turn[t].yielded))

\* A turn streamed text and a grounding event and ended: the message carries
\* the metadata and still shows the streamed text.
C15_Witness ==
  \E t \in Turns :
    /\ turn[t].pc = "done"
    /\ turn[t].events = <<"text", "text", "grounding">>
    /\ \E m \in AssistantMsgs(t) : m.grounding /\ m.content = Chunks(2)
    /\ PersistedContent(t) = Chunks(2)

\* C16: when the stop is observed at a text chunk, after k chunks were
\* applied, the content persisted is exactly the first k chunks: the chunk
\* at which the stop was observed and the later ones are left out, nothing
\* applied is taken back.
C16_CancelKeepsPrefix ==
  \A t \in Turns :
    (Cancelled(t) /\ Last(turn[t].events) = "text") =>
      /\ turn[t].pc \in {"savingModel", "done"}
      /\ \A m \in AssistantMsgs(t) : m.content = Chunks(Len(turn[t].events) - 1)
      /\ turn[t].pc = "done" =>
           (Len(SavedOf(t, "model")) = 1
            /\ PersistedContent(t) = Chunks(Len(turn[t].events) - 1))

\* The stop was observed at the third chunk: two chunks are persisted.
C16_Witness ==
  \E t \in Turns :
    /\ Cancelled(t)
    /\ turn[t].pc = "done"
    /\ turn[t].events = <<"text", "text", "text">>
    /\ PersistedContent(t) = <<ChunkText[1], ChunkText[2]>>

\* C17: once handleStop ran in a turn, from setStreaming(true) on, no later
\* event of the turn's stream changes the message list.
C17_NoMutationAfterStop ==
  [][\A t \in Turns :
       (turn[t].stopRequested /\ turn[t].pc = "stream" /\ turn'[t].pc = "stream") =>
         messages' = messages]_vars

\* ------------------------------------------------------------------------
\* Properties of the system prompt cache
\* ------------------------------------------------------------------------

\* The instruction a fetch of file yields when it succeeds or is answered
\* "not found".
Instruction(file) == IF file = "missing" THEN "" ELSE Trim(file)

\* C18: once a loadSystemPrompt call has completed, with a text, an empty
\* resource or a failed fetch, no further fetch is issued and every call
\* returns the same instruction.
C18_FetchedAtMostOnce ==
  /\ [][(\E c \in Loads : load[c].pc = "done") => fetches' = fetches]_vars
  /\ [](\A c1, c2 \in Loads :
          (load[c1].pc = "done" /\ load[c2].pc = "done") => load[c1].value = load[c2].value)

\* C19: a call that starts after prompt_chat.txt was edited returns the
\* edited instructions: a call answered at once returns what the file holds.
C19_EditTakesEffect ==
  [][\A c \in Loads :
       (load[c].pc = "idle" /\ load'[c].pc = "done") =>
         load'[c].value = Instruction(promptFile)]_vars

\* ------------------------------------------------------------------------
\* Properties of the dataset context
\* ------------------------------------------------------------------------

\* C20: rows, headers, summary and slim CSV are all empty or all of the same
\* attachment, and a prompt is built with a summary only together with the
\* attachment chip or the headers of the same attachment.
C20_DatasetReplacedWholesale ==
  /\ dataset.rows = dataset.headers
  /\ dataset.headers = dataset.summary
  /\ dataset.summary = dataset.slim
  /\ \A t \in Turns :
       turn[t].prompt.summary # "none" =>
         (turn[t].prompt.csv = turn[t].prompt.summary
          \/ turn[t].prompt.headers = turn[t].prompt.summary)

\* ------------------------------------------------------------------------
\* Properties of the data functions
\* ------------------------------------------------------------------------

Enriched == fnName = "enrichWithEngagement"

\* C22: enrichWithEngagement applied to its own output returns the same rows
\* and headers as applying it once.
C22_EnrichIdempotent ==
  Enriched =>
    enrichWithEngagement(executor, fnResult.rows, fnResult.headers) = fnResult

\* An enrichment that added the engagement column and computed a ratio.
C22_Witness ==
  /\ Enriched
  /\ fnResult # fnArgs
  /\ ~InSeq("engagement", fnArgs.headers)
  /\ \E i \in 1..Len(fnResult.rows) :
       fnResult.rows[i]["engagement"] = Ratio(2, 3)
  /\ enrichWithEngagement(executor, fnResult.rows, fnResult.headers) = fnResult

\* C23: after enrichment the headers hold every key of every row, and the
\* engagement column is in the headers at most once and only when the dataset
\* has both a view-count and a like-count column.
C23_HeadersCoverRows ==
  Enriched =>
    /\ \A i \in 1..Len(fnResult.rows) :
         DOMAIN fnResult.rows[i] \subseteq Range(fnResult.headers)
    /\ Occurrences(fnResult.headers, "engagement") <= 1
    /\ InSeq("engagement", fnResult.headers) =>
         (InSeq("viewCount", fnResult.headers) /\ InSeq("likeCount", fnResult.headers))

\* C24: the engagement of an enriched row is likes / views (to the six
\* decimal places kept) when views > 0, and null when views is zero,
\* negative, missing or not a number.
C24_EngagementOrNull ==
  (Enriched /\ ~InSeq("engagement", fnArgs.headers)
     /\ InSeq("engagement", fnResult.headers)) =>
    \A i \in 1..Len(fnResult.rows) :
      LET views == ParseFloat(Get(fnArgs.rows[i], "viewCount"))
          likes == ParseFloat(Get(fnArgs.rows[i], "likeCount"))
          engagement == Get(fnResult.rows[i], "engagement")
      IN  /\ (views.k = "num" /\ views.n > 0 /\ likes.k = "num") =>
               engagement \in {Divide(likes, views), ToFixed(Divide(likes, views), 1000000)}
          /\ ~(views.k = "num" /\ views.n > 0) => engagement = Blank("null")

\* C25: a CSV file whose data rows hold quoted fields with commas parses to
\* rows of as many fields as the header row, each field whole under its own
\* header.
C25_QuotedFieldsKeptWhole ==
  (/\ fnName = "parseCsvToRows"
   /\ \E r \in 1..Len(fnArgs.rows) : \E i \in 1..Len(fnArgs.headers) :
        InSeq(",", fnArgs.rows[r][i])) =>
    /\ fnResult.headers = fnArgs.headers
    /\ Len(fnResult.rows) = Len(fnArgs.rows)
    /\ \A r \in 1..Len(fnResult.rows) :
         /\ DOMAIN fnResult.rows[r] = Range(fnArgs.headers)
         /\ \A i \in 1..Len(fnArgs.headers) :
              fnResult.rows[r][fnArgs.headers[i]] = fnArgs.rows[r][i]

\* The array-valued properties of a JSON object.
ArrayProps(v) == {i \in 1..Len(v.props) : v.props[i].val.t = "array"}

\* C26: parseJSON never throws; it returns a table only for a top-level array
\* or an object with exactly one array-valued property, and null for every
\* other input.
C26_ParseJsonTabularOrNull ==
  fnName = "parseJSON" =>
    LET tabular ==
          \/ fnArgs.text.t = "array"
          \/ fnArgs.text.t = "object" /\ Cardinality(ArrayProps(fnArgs.text)) = 1
    IN  /\ fnResult # Thrown
        /\ fnResult.k = "table" => tabular
        /\ ~tabular => fnResult = NullResult

Executed(names) == fnName = "executeTool" /\ fnArgs.name \in names

IsError(result) == "error" \in DOMAIN result

IsUnknownTool(result) == IsError(result) /\ result.error = "Unknown tool"

\* The tool names of the fixed tool set.
FixedToolSet ==
  {"compute_column_stats", "compute_stats_json", "get_value_counts", "get_top_items",
   "plot_metric_vs_time", "play_video", "generateImage"}

\* C21: executeTool returns {error: "Unknown tool: <name>"} exactly for the
\* names outside the fixed tool set; every name of the set reaches its
\* handler.
C21_UnknownToolExactlyOutsideSet ==
  fnName = "executeTool" =>
    /\ IsUnknownTool(fnResult) <=> fnArgs.name \notin FixedToolSet
    /\ IsUnknownTool(fnResult) => fnResult = UnknownTool(fnArgs.name)

\* The numbers of the column the statistics are asked for, in row order.
StatValues == numericValues(fnArgs.rows, "viewCount")

\* C27: compute_column_stats and compute_stats_json over a column with the
\* numeric values v1..vn return count n and the mean, median, population
\* standard deviation, minimum and maximum of those values to 4 decimal
\* places; for 1, 2, 3, 4 that is mean 2.5, median 2.5, std 1.1180, min 1
\* and max 4.
C27_StatsToFourDecimals ==
  (/\ Executed({"compute_column_stats", "compute_stats_json"})
   /\ fnArgs.args.column \in {"viewCount", "view_count"}
   /\ Len(StatValues) > 0) =>
    /\ ~IsError(fnResult)
    /\ fnResult.count = Len(StatValues)
    /\ fnResult.mean = ToFixed(Ratio(SumOf(StatValues), Len(StatValues)), 10000)
    /\ fnResult.median = ToFixed(median(SortAscending(StatValues)), 10000)
    /\ fnResult.std = RoundedStd(StatValues, 10000)
    /\ \A i \in 1..Len(StatValues) :
         fnResult.min.n <= StatValues[i] /\ StatValues[i] <= fnResult.max.n
    /\ InSeq(fnResult.min.n, StatValues) /\ InSeq(fnResult.max.n, StatValues)
    /\ StatValues = <<1, 2, 3, 4>> =>
         /\ fnResult.mean = Ratio(5, 2)
         /\ fnResult.median = Ratio(5, 2)
         /\ fnResult.std = Ratio(11180, 10000)
         /\ fnResult.min = Num(1)
         /\ fnResult.max = Num(4)

\* Row j comes before row l in the order asked of get_top_items: by metric
\* value, descending unless ascending is asked, and by row number among equals.
TopBefore(j, l) ==
  LET vj == fnArgs.rows[j]["viewCount"].n
      vl == fnArgs.rows[l]["viewCount"].n
  IN  \/ IF fnArgs.args.ascending = "true" THEN vj < vl ELSE vj > vl
      \/ vj = vl /\ j < l

\* C28: get_top_items returns the first n rows of the dataset ordered by the
\* numeric column, descending unless ascending is asked, equal values in
\* row order; for the values 10, 5, 20 with n = 2 descending the items are
\* those of 20 and 10.
C28_TopItemsOrdered ==
  (/\ Executed({"get_top_items"})
   /\ Len(fnArgs.rows) > 0
   /\ \A i \in 1..Len(fnArgs.rows) : fnArgs.rows[i]["viewCount"].k = "num") =>
    /\ ~IsError(fnResult)
    /\ Len(fnResult.tweets) =
         (IF fnArgs.args.n \in 1..Len(fnArgs.rows) THEN fnArgs.args.n ELSE Len(fnArgs.rows))
    /\ \A i \in 1..Len(fnResult.tweets) :
         \E l \in 1..Len(fnArgs.rows) :
           /\ Cardinality({j \in 1..Len(fnArgs.rows) : TopBefore(j, l)}) = i - 1
           /\ fnResult.tweets[i]["title"] = fnArgs.rows[l]["title"]
           /\ fnResult.tweets[i]["viewCount"] = fnArgs.rows[l]["viewCount"]
    /\ (/\ [i \in 1..Len(fnArgs.rows) |-> fnArgs.rows[i]["viewCount"]]
             = <<Num(10), Num(5), Num(20)>>
        /\ fnArgs.args.n = 2
        /\ fnArgs.args.ascending # "true") =>
         /\ fnResult.tweets[1]["viewCount"] = Num(20)
         /\ fnResult.tweets[2]["viewCount"] = Num(10)

\* C29: on a dataset with the columns title, viewCount and likeCount,
\* play_video asked for "most viewed" returns a row whose viewCount is the
\* largest, not an error and not another row.
C29_MostViewedReturnsMax ==
  (/\ Executed({"play_video"})
   /\ ToLower(fnArgs.args.title) = <<"most", "viewed">>
   /\ Len(fnArgs.rows) > 0
   /\ DOMAIN fnArgs.rows[1] = {"title", "viewCount", "likeCount"}) =>
    /\ ~IsError(fnResult)
    /\ \E i \in 1..Len(fnArgs.rows) :
         /\ fnResult.title = fnArgs.rows[i]["title"]
         /\ \A j \in 1..Len(fnArgs.rows) :
              fnArgs.rows[j]["viewCount"].n <= fnArgs.rows[i]["viewCount"].n

\* The query of a play_video call.
VideoQuery == TrimStr(ToLower(fnArgs.args.title))

\* The first row whose title contains the query, 0 when there is none.
TitleMatch ==
  FirstRow([i \in 1..Len(fnArgs.rows) |->
    /\ TruthyCell(Get(fnArgs.rows[i], "title"))
    /\ Includes(ToLower(WordsOf(Get(fnArgs.rows[i], "title"))), VideoQuery)])

\* C30: play_video returns an error object, never a video, when the query is
\* not a special token and no title contains it, or when the row matched has
\* no URL.
C30_NoMatchOrNoUrlIsError ==
  (/\ Executed({"play_video"})
   /\ SpecialQuery(VideoQuery) = "none"
   /\ \/ TitleMatch = 0
      \/ ~TruthyCell(Get(fnArgs.rows[TitleMatch], "videoUrl"))) =>
    (IsError(fnResult) /\ "_playVideo" \notin DOMAIN fnResult)

\* The rows of a plot_metric_vs_time call that hold a number in the metric
\* column and a date in the time column the call names, in dataset order.
CompleteRows ==
  SelectSeq(fnArgs.rows, LAMBDA r :
    Get(r, "viewCount").k = "num" /\ Get(r, fnArgs.args.time_column).k = "num")

\* The time value and the metric value of a point of the payload.
PointOf(p) == IF "x" \in DOMAIN p THEN <<p.x, p.y>> ELSE <<p.name, p.value>>

\* C31: plot_metric_vs_time returns an error object when no row has both a
\* metric value and a time value; else it returns a timeSeries payload whose
\* points are exactly those rows, in ascending order of date.
C31_PlotPointsAreCompleteRows ==
  Executed({"plot_metric_vs_time"}) =>
    IF Len(CompleteRows) = 0 THEN IsError(fnResult)
    ELSE /\ ~IsError(fnResult)
         /\ fnResult._chartType = "timeSeries"
         /\ Len(fnResult.data) = Len(CompleteRows)
         /\ \E p \in [1..Len(CompleteRows) -> 1..Len(CompleteRows)] :
              /\ \A i, j \in DOMAIN p : i # j => p[i] # p[j]
              /\ \A i \in DOMAIN p :
                   PointOf(fnResult.data[i]) =
                     <<Get(CompleteRows[p[i]], fnArgs.args.time_column),
                       Get(CompleteRows[p[i]], "viewCount")>>
         /\ \A i, j \in 1..Len(fnResult.data) :
              i < j => PointOf(fnResult.data[i])[1].n <= PointOf(fnResult.data[j])[1].n

\* ------------------------------------------------------------------------
\* Properties of the chat controller under concurrency and failure
\* ------------------------------------------------------------------------

\* C32: after handleSend has set streaming to true, streaming eventually
\* returns to false, whatever createSession, saveMessage and the model call
\* do.
C32_StreamingEventuallyEnds == streaming ~> ~streaming

\* C33: no saveMessage request of handleSend carries raw base64 bytes: none
\* of its charts and none of the results of its tool-call log holds them
\* under any field (the content is display text by construction).
C33_NoBase64Persisted ==
  \A i \in 1..Len(saved) :
    /\ \A c \in 1..Len(saved[i].charts) :
         \A f \in DOMAIN saved[i].charts[c] :
           saved[i].charts[c][f] \notin RawImageValues
    /\ \A c \in 1..Len(saved[i].toolCalls) :
         \A f \in DOMAIN saved[i].toolCalls[c].result :
           saved[i].toolCalls[c].result[f] \notin RawImageValues

\* ------------------------------------------------------------------------
\* Properties of the system instruction
\* ------------------------------------------------------------------------

\* The history argument as turns of the chat: role and text.
PriorAsTurns(c) ==
  [i \in 1..Len(load[c].prior) |->
     [role |-> load[c].prior[i].role,
      text |-> IF load[c].prior[i].content = "undefined" THEN ""
               ELSE load[c].prior[i].content]]

\* C34: when the fetch of the system instruction fails or the resource is
\* absent, loadSystemPrompt returns the empty string and the call goes on:
\* the history given to the model is exactly the prior turns, without priming
\* turns.
C34_MissingPromptMeansNoPriming ==
  \A c \in Loads :
    (load[c].pc = "done" /\ load[c].outcome \in {"notOk", "throws"}) =>
      /\ load[c].value = ""
      /\ load[c].chatHistory = PriorAsTurns(c)

C34_Witness ==
  \E c \in Loads :
    /\ load[c].pc = "done"
    /\ load[c].outcome = "throws"
    /\ load[c].prior # <<>>
    /\ load[c].chatHistory = PriorAsTurns(c)

\* ------------------------------------------------------------------------
\* Properties of the chat controller: overlapping handlers
\* ------------------------------------------------------------------------

\* The handleSend invocations that passed the guard and have not finished.
InFlight ==
  {t \in Turns : turn[t].pc \in {"creating", "savingUser", "tools", "stream", "savingModel"}}

\* C35: at most one handleSend invocation is in flight: an invocation that
\* begins while an earlier one has not finished returns at the guard, so it
\* creates no session, saves no message and does not invoke the model.
C35_AtMostOneTurnInFlight == Cardinality(InFlight) <= 1

\* C36: once no loadMessages call is pending, the message list is the history
\* of the active session: every message in it that was loaded from the store
\* is a message of the active session, so no late response for a session
\* selected earlier has overwritten the list.
C36_NoForeignHistory ==
  pendingLoads = {} =>
    \A i \in 1..Len(messages) :
      messages[i].src = "db" =>
        /\ ~IsNoSession(activeSessionId)
        /\ InSeq(messages[i], History(activeSessionId))

\* C37: every saveMessage of a turn is issued under the session id resolved
\* at the start of handleSend: the active session of the invocation, or the id
\* createSession returned for a "new" session; the id stays the turn's while
\* activeSessionId changes.
C37_SavedUnderTurnSession ==
  /\ [](\A i \in 1..Len(saved) : saved[i].sid = turn[saved[i].turn].sessionId)
  /\ [][\A t \in Turns :
          /\ (turn[t].pc = "none" /\ turn'[t].pc = "savingUser") =>
               turn'[t].sessionId = activeSessionId
          /\ (turn[t].pc = "creating" /\ turn'[t].pc = "savingUser") =>
               turn'[t].sessionId = Last(dbSessions')
          /\ turn[t].pc \notin {"none", "creating"} =>
               turn'[t].sessionId = turn[t].sessionId]_vars

C37_Witness ==
  \E t \in Turns :
    /\ turn[t].pc = "done"
    /\ activeSessionId # turn[t].sessionId
    /\ \E i, j \in 1..Len(saved) :
         /\ saved[i].turn = t /\ saved[i].role = "user"
         /\ saved[j].turn = t /\ saved[j].role = "model"
         /\ saved[i].sid = saved[j].sid

\* C38: when handleDeleteSession(s) completes, the session list loses s and
\* nothing else, and a session whose deletion has completed stays out of the
\* list, also when another deletion or a session creation overlaps the
\* pending deleteSession call.
C38_DeleteRemovesOnlyThatSession ==
  /\ [][\A d \in pendingDeletes :
          d \notin pendingDeletes' => Range(sessions') = Range(sessions) \ {d.sid}]_vars
  /\ [](\A s \in Range(sessions) :
          InSeq(s, dbSessions) \/ \E d \in pendingDeletes : d.sid = s)

C40_DownloadEventuallyNotLoading ==
  /\ download.loading ~> ~download.loading
  /\ [][(download.loading /\ download'.event = "connectionError"
          /\ download.event # "connectionError") => download'.error # ""]_vars

====
